---- MODULE Spec2Model ----
(***************************************************************************)
(* Parameter-coupling evidence pipeline: catalog loader, text scanner,     *)
(* File-Pair and Cluster-Pair builders, the judgment loop and the          *)
(* aggregator (matrix, extractor, summary, graph).                         *)
(*                                                                         *)
(* Text is a sequence of one-character strings.  A Python dict is a        *)
(* sequence of [key, value] records in insertion order; a Python set is a  *)
(* set; None is the record NoneVal.                                        *)
(***************************************************************************)
EXTENDS Integers, Sequences, FiniteSets, TLC

VARIABLES
    pc,               \* stage of the run
    line,             \* parse_param_line: the line handed to the parser
    decl,             \* the declaration fields the line was written from
    parsed,           \* parse_param_line: its return value
    params_info,      \* DependencyLoader.params_info: name -> ParamInfo
    clusters,         \* clusters.json: dict cluster name -> parameter list
    driver_root,      \* the file tree, in rglob order
    dependency_data,  \* module_dependencies of dependency_analysis.json
    scan_result,      \* the last match_params_in_file call and its result
    candidates,       \* scan_all / parallel_scan output
    file_pairs,       \* FilePairBuilder.build_pairs output
    cluster_pairs,    \* ClusterPairBuilder.build_pairs output
    params_file,      \* the parameter file: its lines, or None if missing
    clusters_json,    \* clusters.json: its content, or None if missing
    dependency_json,  \* dependency_analysis.json: its content, or None if missing
    root_readable,    \* whether the directory driver/ exists and can be listed
    futures,          \* parallel_scan: cluster name -> state of its worker
    task_index,       \* analyze_all: number of tasks the loop has gone through
    judge_log,        \* analyze_all: the calls made to the judge, in order
    llm_results,      \* analyze_all output
    param_couplings,  \* CouplingExtractor.extract output
    summary,          \* CouplingExtractor.generate_summary output
    graph,            \* CouplingExtractor.build_graph output
    coupling_matrix,  \* build_coupling_matrix outcome
    previous          \* the aggregator's outputs of the run before this one

LoadVars == <<params_file, clusters_json, dependency_json, root_readable>>
WorkerVars == <<futures>>
JudgeVars == <<task_index, judge_log, llm_results>>
AggVars == <<param_couplings, summary, graph, coupling_matrix, previous>>

vars == <<pc, line, decl, parsed, params_info, clusters, driver_root,
          dependency_data, scan_result, candidates, file_pairs, cluster_pairs,
          LoadVars, WorkerVars, JudgeVars, AggVars>>

NoneVal == [kind |-> "None"]

\* nothing loaded from files under a root that can be listed, no worker
\* started, no task judged
NoLoad ==
    /\ params_file = NoneVal /\ clusters_json = NoneVal /\ dependency_json = NoneVal
    /\ root_readable = TRUE
NoWorkers == futures = <<>>
NoJudge == task_index = 0 /\ judge_log = <<>> /\ llm_results = <<>>
NoAggregate ==
    /\ param_couplings = <<>>
    /\ summary = NoneVal
    /\ graph = NoneVal
    /\ coupling_matrix = NoneVal
    /\ previous = NoneVal

----------------------------------------------------------------------------
(* Characters and strings *)

WordChars == {"A", "B", "C", "W", "X", "Y", "Z", "i", "c", "_", "1", "3", "8"}
SpaceChars == {" ", "\n"}
Arrow == "<->"

CodePoint(c) ==
    CASE c = "\n" -> 10 [] c = " " -> 32 [] c = "\"" -> 34 [] c = "#" -> 35
      [] c = "(" -> 40 [] c = ")" -> 41 [] c = "*" -> 42 [] c = "-" -> 45
      [] c = "/" -> 47 [] c = "1" -> 49 [] c = "3" -> 51 [] c = "8" -> 56
      [] c = "A" -> 65 [] c = "B" -> 66 [] c = "C" -> 67 [] c = "W" -> 87
      [] c = "X" -> 88 [] c = "Y" -> 89 [] c = "Z" -> 90 [] c = "\\" -> 92
      [] c = "_" -> 95 [] c = "c" -> 99 [] c = "i" -> 105
      [] c = Arrow -> 8596

Min(a, b) == IF a < b THEN a ELSE b
Max(a, b) == IF a > b THEN a ELSE b

RECURSIVE Cat(_)
Cat(ss) == IF ss = <<>> THEN <<>> ELSE Head(ss) \o Cat(Tail(ss))

\* str < str
RECURSIVE StrLess(_, _)
StrLess(a, b) ==
    IF b = <<>> THEN FALSE
    ELSE IF a = <<>> THEN TRUE
    ELSE IF a[1] = b[1] THEN StrLess(Tail(a), Tail(b))
    ELSE CodePoint(a[1]) < CodePoint(b[1])

\* sorted(list of str): ascending
RECURSIVE InsertSorted(_, _)
InsertSorted(x, s) ==
    IF s = <<>> THEN <<x>>
    ELSE IF StrLess(x, s[1]) THEN <<x>> \o s
    ELSE <<s[1]>> \o InsertSorted(x, Tail(s))

RECURSIVE sorted(_)
sorted(s) ==
    IF s = <<>> THEN <<>>
    ELSE InsertSorted(s[Len(s)], sorted(SubSeq(s, 1, Len(s) - 1)))

\* sorted(list(set of str))
RECURSIVE sorted_set(_)
sorted_set(S) ==
    IF S = {} THEN <<>>
    ELSE LET m == CHOOSE x \in S : \A y \in S : ~StrLess(y, x)
         IN <<m>> \o sorted_set(S \ {m})

Range(s) == {s[i] : i \in 1..Len(s)}

\* all sequences over S of length 0..n
RECURSIVE SeqsUpTo(_, _)
SeqsUpTo(S, n) ==
    IF n = 0 THEN {<<>>}
    ELSE LET shorter == SeqsUpTo(S, n - 1)
         IN shorter \cup {Append(s, x) : s \in shorter, x \in S}

\* dict lookups
DictKeys(d) == {d[i].key : i \in 1..Len(d)}
DictGet(d, k) == d[CHOOSE i \in 1..Len(d) : d[i].key = k].value
\* d[k] = v: an existing key keeps its place, a new one goes last
DictSet(d, k, v) ==
    IF k \in DictKeys(d)
    THEN [i \in 1..Len(d) |-> IF d[i].key = k THEN [key |-> k, value |-> v] ELSE d[i]]
    ELSE Append(d, [key |-> k, value |-> v])

----------------------------------------------------------------------------
(* Step 1: DependencyLoader.parse_param_line *)

IsSpace(c) == c \in SpaceChars
IsNonSpace(c) == c \notin SpaceChars
IsWord(c) == c \in WordChars
IsNotClose(c) == c # ")"

RECURSIVE lstrip(_)
lstrip(s) == IF s # <<>> /\ IsSpace(s[1]) THEN lstrip(Tail(s)) ELSE s

RECURSIVE rstrip(_)
rstrip(s) ==
    IF s # <<>> /\ IsSpace(s[Len(s)]) THEN rstrip(SubSeq(s, 1, Len(s) - 1)) ELSE s

\* str.strip()
strip(s) == rstrip(lstrip(s))

\* index of the first c in s, 0 when there is none
FirstIndex(s, c) ==
    IF c \in Range(s)
    THEN CHOOSE i \in 1..Len(s) : s[i] = c /\ \A j \in 1..(i - 1) : s[j] # c
    ELSE 0

\* last index of the longest run of P-characters that starts at i (i - 1: no run)
RunEnd(s, i, P(_)) ==
    IF i > Len(s) THEN i - 1
    ELSE CHOOSE j \in (i - 1)..Len(s) :
            /\ \A k \in i..j : P(s[k])
            /\ (j = Len(s) \/ ~P(s[j + 1]))

CharAt(s, i) == IF i >= 1 /\ i <= Len(s) THEN s[i] ELSE "EOS"

\* r'(\S+)\s*\((\w+)\)\s+(\S+)' tried with group 1 ending at index i.  Every
\* later quantifier is followed by a character outside its own class, so only
\* its longest run can succeed.  0 when the attempt fails, else the index at
\* which group 3 ends.
DefaultEndFor(s, i) ==
    LET open == RunEnd(s, i + 1, IsSpace) + 1
        tEnd == RunEnd(s, open + 1, IsWord)
        wEnd == RunEnd(s, tEnd + 2, IsSpace)
        dEnd == RunEnd(s, wEnd + 1, IsNonSpace)
    IN  IF /\ CharAt(s, open) = "("
           /\ tEnd >= open + 1
           /\ CharAt(s, tEnd + 1) = ")"
           /\ wEnd >= tEnd + 2
           /\ dEnd >= wEnd + 1
        THEN dEnd ELSE 0

\* group 1 is greedy: the longest prefix of non-space characters after which
\* the rest of the pattern matches
NameEnd(s) ==
    LET ends == {i \in 1..RunEnd(s, 1, IsNonSpace) : DefaultEndFor(s, i) # 0}
    IN  IF ends = {} THEN 0 ELSE CHOOSE i \in ends : \A j \in ends : j <= i

\* the optional group r'(?:\s+\(([^)]+)\))?' after group 3: group 4, or '' when
\* the group does not take part in the match
RangeGroup(s, dEnd) ==
    LET sEnd == RunEnd(s, dEnd + 1, IsSpace)
        rEnd == RunEnd(s, sEnd + 2, IsNotClose)
    IN  IF /\ sEnd >= dEnd + 1
           /\ CharAt(s, sEnd + 1) = "("
           /\ rEnd >= sEnd + 2
           /\ CharAt(s, rEnd + 1) = ")"
        THEN SubSeq(s, sEnd + 2, rEnd) ELSE <<>>

parse_param_line(ln) ==
    LET l1 == strip(ln)
        hash == FirstIndex(l1, "#")
        body == IF hash = 0 THEN l1 ELSE strip(SubSeq(l1, 1, hash - 1))
        comment == IF hash = 0 THEN <<>> ELSE strip(SubSeq(l1, hash + 1, Len(l1)))
        nEnd == NameEnd(body)
        open == RunEnd(body, nEnd + 1, IsSpace) + 1
        tEnd == RunEnd(body, open + 1, IsWord)
        dEnd == DefaultEndFor(body, nEnd)
        wEnd == RunEnd(body, tEnd + 2, IsSpace)
    IN  IF l1 = <<>> \/ l1[1] = "#" THEN NoneVal
        ELSE IF nEnd = 0 THEN NoneVal
        ELSE [kind |-> "ParamInfo",
              name |-> SubSeq(body, 1, nEnd),
              type |-> SubSeq(body, open + 1, tEnd),
              default |-> SubSeq(body, wEnd + 1, dEnd),
              range |-> RangeGroup(body, dEnd),
              comment |-> comment]

\* the textual pattern NAME(TYPE) V (R) # C of the docstring
FormatDecl(d) ==
    d.name \o <<"(">> \o d.type \o <<")", " ">> \o d.default
        \o <<" ", "(">> \o d.range \o <<")", " ", "#">> \o d.comment

----------------------------------------------------------------------------
(* Step 2: StringMatcher / SmartStringMatcher *)

\* re.sub(r'//.*?$', '', content, flags=re.MULTILINE): from // up to, not
\* including, the end of its line
RECURSIVE StripLineComments(_)
StripLineComments(s) ==
    IF s = <<>> THEN <<>>
    ELSE IF Len(s) >= 2 /\ s[1] = "/" /\ s[2] = "/"
         THEN LET nl == FirstIndex(s, "\n")
              IN  IF nl = 0 THEN <<>> ELSE StripLineComments(SubSeq(s, nl, Len(s)))
         ELSE <<s[1]>> \o StripLineComments(Tail(s))

\* index of the first "*/" that closes a "/*" at s[1..2], 0 when there is none
BlockClose(s) ==
    LET closes == {j \in 3..(Len(s) - 1) : s[j] = "*" /\ s[j + 1] = "/"}
    IN  IF closes = {} THEN 0 ELSE CHOOSE j \in closes : \A k \in closes : j <= k

\* re.sub(r'/\*.*?\*/', '', content, flags=re.DOTALL)
RECURSIVE StripBlockComments(_)
StripBlockComments(s) ==
    IF s = <<>> THEN <<>>
    ELSE IF Len(s) >= 2 /\ s[1] = "/" /\ s[2] = "*" /\ BlockClose(s) # 0
         THEN StripBlockComments(SubSeq(s, BlockClose(s) + 2, Len(s)))
         ELSE <<s[1]>> \o StripBlockComments(Tail(s))

\* re.sub(r'"[^"]*"', '""', content)
RECURSIVE StripStrings(_)
StripStrings(s) ==
    IF s = <<>> THEN <<>>
    ELSE IF s[1] = "\"" /\ FirstIndex(Tail(s), "\"") # 0
         THEN <<"\"", "\"">>
                \o StripStrings(SubSeq(s, FirstIndex(Tail(s), "\"") + 2, Len(s)))
         ELSE <<s[1]>> \o StripStrings(Tail(s))

\* couple_extractor.py and string_filter.py
remove_noise(content) ==
    StripStrings(StripBlockComments(StripLineComments(content)))

\* couple_extractor2.py: the three substitutions are commented out
remove_noise2(content) == content

Window == 200
ContextCap == 3
ParallelContextCap == 3

CountNewlines(s) == Cardinality({i \in 1..Len(s) : s[i] = "\n"})

\* extract_context, with ctx['param'] = name set by the caller; match_pos is
\* the 0-based offset match.start()
extract_context(content, match_pos, name) ==
    [line_number |-> CountNewlines(SubSeq(content, 1, match_pos)) + 1,
     snippet |-> SubSeq(content, Max(0, match_pos - Window) + 1,
                        Min(Len(content), match_pos + Window)),
     position |-> match_pos,
     param |-> name]

\* \b at offset i: exactly one of the characters before and after it is \w
WordBoundaryNone(s, i) == TRUE
WordBoundary(s, i) == (CharAt(s, i) \in WordChars) # (CharAt(s, i + 1) \in WordChars)

\* r'\b' + re.escape(name) + r'\b' matches at offset p
MatchAt(name, s, p) ==
    /\ p + Len(name) <= Len(s)
    /\ SubSeq(s, p + 1, p + Len(name)) = name
    /\ WordBoundary(s, p)
    /\ WordBoundary(s, p + Len(name))

\* [m.start() for m in re.finditer(pattern, s)]: leftmost, non-overlapping
RECURSIVE finditer(_, _, _)
finditer(name, s, from) ==
    IF from + Len(name) > Len(s) THEN <<>>
    ELSE IF MatchAt(name, s, from)
         THEN <<from>> \o finditer(name, s, from + Len(name))
         ELSE finditer(name, s, from + 1)

\* the contexts of matches[:3]
FirstContexts(cleaned, name) ==
    LET matches == finditer(name, cleaned, 0)
    IN  [i \in 1..Min(ContextCap, Len(matches)) |->
            extract_context(cleaned, matches[i], name)]

\* StringMatcher: the loop over cluster_params, skipping names that are not in
\* self.params_info
RECURSIVE MatchLoop(_, _, _)
MatchLoop(cleaned, names, info) ==
    IF names = <<>> THEN [matched |-> <<>>, contexts |-> <<>>]
    ELSE LET rest == MatchLoop(cleaned, Tail(names), info)
             n == Head(names)
         IN  IF n \in DictKeys(info) /\ finditer(n, cleaned, 0) # <<>>
             THEN [matched |-> <<n>> \o rest.matched,
                   contexts |-> FirstContexts(cleaned, n) \o rest.contexts]
             ELSE rest

ParamDict(p) ==
    [name |-> p.name, type |-> p.type, default |-> p.default,
     range |-> p.range, comment |-> p.comment]

\* the part of StringMatcher.match_params_in_file after the file was read
MatchCleaned(path, cleaned, cluster_params, info) ==
    LET r == MatchLoop(cleaned, cluster_params, info)
    IN  IF r.matched = <<>> THEN NoneVal
        ELSE [kind |-> "FileMatchResult",
              file_path |-> path,
              matched_params |-> sorted(r.matched),
              params_info |-> [i \in 1..Len(r.matched) |->
                                  ParamDict(DictGet(info, r.matched[i]))],
              match_count |-> Len(r.matched),
              contexts |-> r.contexts]

\* couple_extractor.py StringMatcher.match_params_in_file
match_params_in_file(f, cluster_params, info) ==
    IF ~f.readable THEN NoneVal
    ELSE MatchCleaned(f.path, remove_noise(f.content), cluster_params, info)

\* couple_extractor2.py StringMatcher.match_params_in_file
match_params_in_file2(f, cluster_params, info) ==
    IF ~f.readable THEN NoneVal
    ELSE MatchCleaned(f.path, remove_noise2(f.content), cluster_params, info)

\* SmartStringMatcher: the loop over params; no catalog, occurrences are summed
RECURSIVE SmartMatchLoop(_, _)
SmartMatchLoop(cleaned, names) ==
    IF names = <<>> THEN [matched |-> <<>>, contexts |-> <<>>, total |-> 0]
    ELSE LET rest == SmartMatchLoop(cleaned, Tail(names))
             n == Head(names)
             matches == finditer(n, cleaned, 0)
         IN  IF matches # <<>>
             THEN [matched |-> <<n>> \o rest.matched,
                   contexts |-> FirstContexts(cleaned, n) \o rest.contexts,
                   total |-> Len(matches) + rest.total]
             ELSE rest

Suffix(path) ==
    CASE path = "driver/dut/a.sv" -> "sv"
      [] path = "driver/tb/b.v" -> "v"
      [] OTHER -> "txt"

classify_file(path) ==
    CASE path = "driver/dut/a.sv" -> "dut"
      [] path = "driver/tb/b.v" -> "tb"
      [] OTHER -> "unknown"

\* string_filter.py SmartStringMatcher.match_params_in_file
smart_match_params_in_file(f, params) ==
    IF ~f.readable THEN NoneVal
    ELSE LET r == SmartMatchLoop(remove_noise(f.content), params)
         IN  [kind |-> "MatchResult",
              file_path |-> f.path,
              matched_params |-> r.matched,
              match_count |-> r.total,
              code_contexts |-> r.contexts,
              file_type |-> classify_file(f.path)]

\* results.sort(key=match_count, reverse=True): stable, descending
RECURSIVE InsertByCount(_, _)
InsertByCount(x, s) ==
    IF s = <<>> THEN <<x>>
    ELSE IF x.match_count > s[1].match_count THEN <<x>> \o s
    ELSE <<s[1]>> \o InsertByCount(x, Tail(s))

RECURSIVE SortByCount(_)
SortByCount(s) ==
    IF s = <<>> THEN <<>>
    ELSE InsertByCount(s[Len(s)], SortByCount(SubSeq(s, 1, Len(s) - 1)))

\* StringMatcher.scan_cluster: the loop over all files, before the sort
RECURSIVE ScanFiles(_, _, _)
ScanFiles(files, cluster_params, info) ==
    IF files = <<>> THEN <<>>
    ELSE LET result == match_params_in_file(Head(files), cluster_params, info)
             rest == ScanFiles(Tail(files), cluster_params, info)
         IN  IF result.kind = "None" THEN rest
             ELSE <<[file |-> result.file_path,
                     matched_params |-> result.matched_params,
                     params_info |-> result.params_info,
                     match_count |-> result.match_count,
                     contexts |-> result.contexts]>> \o rest

scan_cluster(root, cluster_params, info) ==
    SortByCount(ScanFiles(root, cluster_params, info))

\* StringMatcher.scan_all: one entry per cluster, in the order of the clusters
scan_all(root, cl, info) ==
    [i \in 1..Len(cl) |->
        [key |-> cl[i].key, value |-> scan_cluster(root, cl[i].value, info)]]

\* SmartStringMatcher.scan_cluster: one rglob pass for a suffix
RECURSIVE SmartScanFiles(_, _, _)
SmartScanFiles(files, suffix, params) ==
    IF files = <<>> THEN <<>>
    ELSE LET f == Head(files)
             rest == SmartScanFiles(Tail(files), suffix, params)
             result == smart_match_params_in_file(f, params)
         IN  IF Suffix(f.path) # suffix THEN rest
             ELSE IF result.kind # "None" /\ result.match_count > 0
                  THEN <<result>> \o rest
                  ELSE rest

smart_scan_cluster(root, params) ==
    SortByCount(SmartScanFiles(root, "sv", params) \o SmartScanFiles(root, "v", params))

\* SmartStringMatcher.parallel_scan: the entry built from one worker's result
ParallelEntry(results) ==
    [i \in 1..Len(results) |->
        [file |-> results[i].file_path,
         matched_params |-> results[i].matched_params,
         match_count |-> results[i].match_count,
         file_type |-> results[i].file_type,
         contexts |-> SubSeq(results[i].code_contexts, 1,
                             Min(ParallelContextCap, Len(results[i].code_contexts)))]]

\* SmartStringMatcher.parallel_scan: one worker per cluster; the workers whose
\* cluster is in `failed` raise, and their cluster gets no entry
RECURSIVE parallel_scan(_, _, _)
parallel_scan(root, cl, failed) ==
    IF cl = <<>> THEN <<>>
    ELSE LET rest == parallel_scan(root, Tail(cl), failed)
         IN  IF Head(cl).key \in failed THEN rest
             ELSE <<[key |-> Head(cl).key,
                     value |-> ParallelEntry(smart_scan_cluster(root, Head(cl).value))]>>
                    \o rest

----------------------------------------------------------------------------
(* Step 3: ClusterPairBuilder and FilePairBuilder *)

\* the (cluster_name, f) pairs in the order of the two nested loops over
\* self.candidates.items() and files
RECURSIVE CandidateItems(_)
CandidateItems(cand) ==
    IF cand = <<>> THEN <<>>
    ELSE [j \in 1..Len(Head(cand).value) |->
             [cluster |-> Head(cand).key, f |-> Head(cand).value[j]]]
           \o CandidateItems(Tail(cand))

\* dict.get(key): None when the key is missing
DictGetOrNone(d, k) == IF k \in DictKeys(d) THEN DictGet(d, k) ELSE NoneVal

\* ClusterPairBuilder._build_file_param_mapping: the body of the inner loop
ClusterMappingStep(acc, item) ==
    LET fp == item.f.file
        cur == IF fp \in DictKeys(acc) THEN DictGet(acc, fp)
               ELSE [kind |-> "FileData", clusters |-> {}, params_by_cluster |-> <<>>]
    IN  DictSet(acc, fp,
            [kind |-> "FileData",
             clusters |-> cur.clusters \cup {item.cluster},
             params_by_cluster |->
                 DictSet(cur.params_by_cluster, item.cluster,
                         [params |-> item.f.matched_params,
                          params_info |-> item.f.params_info,
                          contexts |-> item.f.contexts])])

RECURSIVE ClusterMappingLoop(_, _)
ClusterMappingLoop(items, acc) ==
    IF items = <<>> THEN acc
    ELSE ClusterMappingLoop(Tail(items), ClusterMappingStep(acc, Head(items)))

_build_file_param_mapping(cand) == ClusterMappingLoop(CandidateItems(cand), <<>>)

\* _collect_contexts_for_cluster_pair, part 1: co-occurrence inside one file
RECURSIVE IntraContexts(_, _, _)
IntraContexts(cluster1, cluster2, ftp) ==
    IF ftp = <<>> THEN <<>>
    ELSE LET file_data == Head(ftp).value
             rest == IntraContexts(cluster1, cluster2, Tail(ftp))
         IN  IF cluster1 \in file_data.clusters /\ cluster2 \in file_data.clusters
             THEN <<[type |-> "INTRA_FILE",
                     file |-> Head(ftp).key,
                     cluster1 |-> cluster1,
                     cluster2 |-> cluster2,
                     cluster1_params |-> DictGet(file_data.params_by_cluster, cluster1),
                     cluster2_params |-> DictGet(file_data.params_by_cluster, cluster2)]>>
                    \o rest
             ELSE rest

RightArrow == "->"

\* one INTER_FILE context of a dependency whose caller uses cluster `from`
\* and whose callee uses cluster `to`
InterContext(dep, caller_info, callee_info, from, to) ==
    [type |-> "INTER_FILE",
     caller_file |-> dep.source_path,
     callee_file |-> dep.target_path,
     caller_cluster |-> from,
     callee_cluster |-> to,
     caller_params |-> DictGet(caller_info.params_by_cluster, from),
     callee_params |-> DictGet(callee_info.params_by_cluster, to),
     module |-> dep.module_type,
     instance |-> dep.instance_name,
     instantiation_code |-> dep.description,
     direction |-> from \o <<RightArrow>> \o to]

\* the loop body without the reverse direction
DepContextsOneWay(cluster1, cluster2, ftp, dep) ==
    LET caller_info == DictGetOrNone(ftp, dep.source_path)
        callee_info == DictGetOrNone(ftp, dep.target_path)
    IN  IF caller_info.kind = "None" \/ callee_info.kind = "None" THEN <<>>
        ELSE IF cluster1 \in caller_info.clusters /\ cluster2 \in callee_info.clusters
        THEN <<InterContext(dep, caller_info, callee_info, cluster1, cluster2)>>
        ELSE <<>>

\* _collect_contexts_for_cluster_pair, part 2: the body of the loop over
\* module_deps, both directions
DepContexts(cluster1, cluster2, ftp, dep) ==
    LET caller_info == DictGetOrNone(ftp, dep.source_path)
        callee_info == DictGetOrNone(ftp, dep.target_path)
    IN  IF caller_info.kind = "None" \/ callee_info.kind = "None" THEN <<>>
        ELSE (IF cluster1 \in caller_info.clusters /\ cluster2 \in callee_info.clusters
              THEN <<InterContext(dep, caller_info, callee_info, cluster1, cluster2)>>
              ELSE <<>>)
             \o
             (IF cluster2 \in caller_info.clusters /\ cluster1 \in callee_info.clusters
              THEN <<InterContext(dep, caller_info, callee_info, cluster2, cluster1)>>
              ELSE <<>>)

RECURSIVE InterContexts(_, _, _, _)
InterContexts(cluster1, cluster2, ftp, deps) ==
    IF deps = <<>> THEN <<>>
    ELSE DepContexts(cluster1, cluster2, ftp, Head(deps))
           \o InterContexts(cluster1, cluster2, ftp, Tail(deps))

_collect_contexts_for_cluster_pair(cluster1, cluster2, ftp, deps) ==
    IntraContexts(cluster1, cluster2, ftp) \o InterContexts(cluster1, cluster2, ftp, deps)

\* _make_cluster_pair_key
_make_cluster_pair_key(cluster1, cluster2) ==
    LET s == sorted(<<cluster1, cluster2>>)
    IN  s[1] \o <<Arrow>> \o s[2]

\* itertools.combinations(lst, 2)
RECURSIVE combinations2(_)
combinations2(lst) ==
    IF Len(lst) < 2 THEN <<>>
    ELSE [j \in 1..(Len(lst) - 1) |-> <<lst[1], lst[j + 1]>>] \o combinations2(Tail(lst))

\* does a pair with these contexts get a task
KeepAlways(contexts) == TRUE
KeepPair(contexts) == contexts # <<>>

\* the loop body with both flags taken from the first context alone
ClusterPairStepFirstContext(dict, pair, ftp, deps) ==
    LET contexts == _collect_contexts_for_cluster_pair(pair[1], pair[2], ftp, deps)
    IN  IF KeepPair(contexts)
        THEN DictSet(dict, _make_cluster_pair_key(pair[1], pair[2]),
                 [cluster_pair |-> pair,
                  contexts |-> contexts,
                  context_count |-> Len(contexts),
                  has_intra_file |-> contexts[1].type = "INTRA_FILE",
                  has_inter_file |-> contexts[1].type = "INTER_FILE"])
        ELSE dict

\* ClusterPairBuilder.build_pairs: the body of the loop over all_possible_pairs
ClusterPairStep(dict, pair, ftp, deps) ==
    LET contexts == _collect_contexts_for_cluster_pair(pair[1], pair[2], ftp, deps)
    IN  IF KeepPair(contexts)
        THEN DictSet(dict, _make_cluster_pair_key(pair[1], pair[2]),
                 [cluster_pair |-> pair,
                  contexts |-> contexts,
                  context_count |-> Len(contexts),
                  has_intra_file |-> \E i \in 1..Len(contexts) :
                                         contexts[i].type = "INTRA_FILE",
                  has_inter_file |-> \E i \in 1..Len(contexts) :
                                         contexts[i].type = "INTER_FILE"])
        ELSE dict

RECURSIVE ClusterPairLoop(_, _, _, _)
ClusterPairLoop(pairs, dict, ftp, deps) ==
    IF pairs = <<>> THEN dict
    ELSE ClusterPairLoop(Tail(pairs), ClusterPairStep(dict, Head(pairs), ftp, deps),
                         ftp, deps)

UsedClusters(ftp) == UNION {ftp[i].value.clusters : i \in 1..Len(ftp)}

DictValues(d) == [i \in 1..Len(d) |-> d[i].value]

\* every ordered pair of distinct clusters
OrderedPairs(lst) ==
    SelectSeq(Cat([i \in 1..Len(lst) |-> [j \in 1..Len(lst) |-> <<lst[i], lst[j]>>]]),
              LAMBDA pr : pr[1] # pr[2])

\* build_pairs without the deduplication: every ordered pair with contexts is
\* appended to a list
RECURSIVE AppendPairLoop(_, _, _)
AppendPairLoop(pairs, ftp, deps) ==
    IF pairs = <<>> THEN <<>>
    ELSE DictValues(ClusterPairStep(<<>>, Head(pairs), ftp, deps))
           \o AppendPairLoop(Tail(pairs), ftp, deps)

cluster_build_pairs_no_dedup(deps, cand) ==
    LET ftp == _build_file_param_mapping(cand)
    IN  AppendPairLoop(OrderedPairs(sorted_set(UsedClusters(ftp))), ftp, deps)

\* ClusterPairBuilder.build_pairs
cluster_build_pairs(deps, cand) ==
    LET ftp == _build_file_param_mapping(cand)
        used_cluster_list == sorted_set(UsedClusters(ftp))
        all_possible_pairs == combinations2(used_cluster_list)
    IN  DictValues(ClusterPairLoop(all_possible_pairs, <<>>, ftp, deps))

\* the merge that keeps, for a file, the parameters of the cluster seen last
FileMappingStepLastCluster(acc, item) ==
    LET fp == item.f.file
        cur == IF fp \in DictKeys(acc) THEN DictGet(acc, fp)
               ELSE [kind |-> "FileInfo", params |-> {}, params_info |-> <<>>,
                     clusters |-> {}, contexts |-> <<>>]
    IN  DictSet(acc, fp,
            [kind |-> "FileInfo",
             params |-> Range(item.f.matched_params),
             params_info |-> cur.params_info \o item.f.params_info,
             clusters |-> cur.clusters \cup {item.cluster},
             contexts |-> cur.contexts \o item.f.contexts])

\* FilePairBuilder.build_pairs: the body of the loop that merges the
\* per-cluster results into file_to_params
FileMappingStep(acc, item) ==
    LET fp == item.f.file
        cur == IF fp \in DictKeys(acc) THEN DictGet(acc, fp)
               ELSE [kind |-> "FileInfo", params |-> {}, params_info |-> <<>>,
                     clusters |-> {}, contexts |-> <<>>]
    IN  DictSet(acc, fp,
            [kind |-> "FileInfo",
             params |-> cur.params \cup Range(item.f.matched_params),
             params_info |-> cur.params_info \o item.f.params_info,
             clusters |-> cur.clusters \cup {item.cluster},
             contexts |-> cur.contexts \o item.f.contexts])

RECURSIVE FileMappingLoop(_, _)
FileMappingLoop(items, acc) ==
    IF items = <<>> THEN acc
    ELSE FileMappingLoop(Tail(items), FileMappingStep(acc, Head(items)))

\* len(info['clusters']) > 1
SomeCluster(info) == Cardinality(info.clusters) >= 1
MultiCluster(info) == Cardinality(info.clusters) > 1

InterFileTask(dep, caller_info, callee_info) ==
    [type |-> "INTER_FILE",
     caller_file |-> dep.source_path,
     callee_file |-> dep.target_path,
     module |-> dep.module_type,
     instance |-> dep.instance_name,
     instantiation_code |-> dep.description,
     caller_params |-> sorted_set(caller_info.params),
     caller_params_info |-> caller_info.params_info,
     callee_params |-> sorted_set(callee_info.params),
     callee_params_info |-> callee_info.params_info,
     caller_clusters |-> sorted_set(caller_info.clusters),
     callee_clusters |-> sorted_set(callee_info.clusters)]

MultiClusterTask(dep, role, file, info, other) ==
    [type |-> "INTRA_FILE_MULTI_CLUSTER",
     file |-> file,
     role |-> role,
     module |-> dep.module_type,
     instance |-> dep.instance_name,
     instantiation_code |-> dep.description,
     params |-> sorted_set(info.params),
     params_info |-> info.params_info,
     clusters |-> sorted_set(info.clusters),
     other_file |-> other]

\* FilePairBuilder.build_pairs: the body of the loop over module_deps; the
\* tasks this dependency appends
FilePairStep(ftp, dep) ==
    LET caller == dep.source_path
        callee == dep.target_path
        caller_info == DictGetOrNone(ftp, caller)
        callee_info == DictGetOrNone(ftp, callee)
    IN  IF caller_info.kind # "None" /\ callee_info.kind # "None"
        THEN <<InterFileTask(dep, caller_info, callee_info)>>
        ELSE IF caller_info.kind # "None" /\ callee_info.kind = "None"
                 /\ MultiCluster(caller_info)
        THEN <<MultiClusterTask(dep, "caller", caller, caller_info, callee)>>
        ELSE IF callee_info.kind # "None" /\ caller_info.kind = "None"
                 /\ MultiCluster(callee_info)
        THEN <<MultiClusterTask(dep, "callee", callee, callee_info, caller)>>
        ELSE <<>>

RECURSIVE FilePairLoop(_, _)
FilePairLoop(ftp, deps) ==
    IF deps = <<>> THEN <<>>
    ELSE FilePairStep(ftp, Head(deps)) \o FilePairLoop(ftp, Tail(deps))

\* FilePairBuilder.build_pairs
file_build_pairs(deps, cand) ==
    FilePairLoop(FileMappingLoop(CandidateItems(cand), <<>>), deps)

----------------------------------------------------------------------------
(* Declaration lines handed to the parser *)

MaxTokLen == 3

Tokens(S, n) == SeqsUpTo(S, n) \ {<<>>}

DeclNames == Tokens({"W", "_"}, 2)
DeclTypes == {<<"i">>, <<"i", "8">>}
DeclDefaults == Tokens({"8", "(", ")"}, MaxTokLen)
DeclRanges == {<<>>, <<"1">>, <<"1", "-", "8">>, <<" ", "1">>, <<"(">>}
DeclComments == {<<>>, <<"c">>, <<" ", "c", " ">>, <<"c", "#", "c">>}

Decls ==
    [name : DeclNames, type : DeclTypes, default : DeclDefaults,
     range : DeclRanges, comment : DeclComments]

NoScan == [variant |-> "none"]

InitParse ==
    /\ pc = "parse"
    /\ decl \in Decls
    /\ line \in {FormatDecl(decl), <<" ">> \o FormatDecl(decl) \o <<" ", "\n">>}
    /\ parsed = NoneVal
    /\ params_info = <<>>
    /\ clusters = <<>>
    /\ driver_root = <<>>
    /\ dependency_data = <<>>
    /\ scan_result = NoScan
    /\ candidates = <<>>
    /\ file_pairs = <<>>
    /\ cluster_pairs = <<>>
    /\ NoLoad /\ NoWorkers /\ NoJudge /\ NoAggregate

ParseParamLine ==
    /\ pc = "parse"
    /\ parsed' = parse_param_line(line)
    /\ pc' = "parsed"
    /\ UNCHANGED <<line, decl, params_info, clusters, driver_root, dependency_data,
                   scan_result, candidates, file_pairs, cluster_pairs>>
    /\ UNCHANGED <<LoadVars, WorkerVars, JudgeVars, AggVars>>

\* a parsed definition written back in the same textual pattern and parsed again
Reparse ==
    /\ pc = "parsed"
    /\ parsed.kind = "ParamInfo"
    /\ line' = FormatDecl(parsed)
    /\ parsed' = parse_param_line(FormatDecl(parsed))
    /\ pc' = "reparsed"
    /\ UNCHANGED <<decl, params_info, clusters, driver_root, dependency_data,
                   scan_result, candidates, file_pairs, cluster_pairs>>
    /\ UNCHANGED <<LoadVars, WorkerVars, JudgeVars, AggVars>>

NextParse == ParseParamLine \/ Reparse

SpecParse == InitParse /\ [][NextParse]_vars

\* C10: every declaration line NAME(TYPE) V (R) # C parses to name = NAME,
\* type = TYPE, default = V, range = R and comment = C stripped of leading and
\* trailing whitespace, and re-parsing the reformatted definition gives the
\* same fields.
C10_ParseRoundTrip ==
    pc \in {"parsed", "reparsed"} =>
        /\ parsed.kind = "ParamInfo"
        /\ parsed.name = decl.name
        /\ parsed.type = decl.type
        /\ parsed.default = decl.default
        /\ parsed.range = decl.range
        /\ parsed.comment = strip(decl.comment)

----------------------------------------------------------------------------
(* Scanner runs: one file tree, one cluster catalog, one parameter catalog *)

MaxToks == 4

PA == <<"A">>
PB == <<"B">>

\* pieces the scanned file is written from: two parameter names followed by a
\* blank, an identifier prefix, a line-comment opener and a newline
ScanTokens == {<<"A", " ">>, <<"B", " ">>, <<"A", "_">>, <<"/", "/">>, <<"\n">>}

ScanTexts == {Cat(ts) : ts \in SeqsUpTo(ScanTokens, MaxToks)}

FileA(text) == [path |-> "driver/dut/a.sv", content |-> text, readable |-> TRUE]
FileB == [path |-> "driver/tb/b.v", content |-> <<"B", " ", "A", "\n", "B">>,
          readable |-> TRUE]
FileC == [path |-> "driver/doc/c.txt", content |-> <<"A", " ">>, readable |-> TRUE]
Unreadable == [path |-> "driver/dut/a.sv", content |-> <<>>, readable |-> FALSE]

ScanTrees ==
    {<<FileA(t)>> : t \in ScanTexts}
        \cup {<<FileB, FileA(Cat(ts))>> : ts \in SeqsUpTo(ScanTokens, 2)}
        \cup {<<Unreadable>>, <<Unreadable, FileC, FileB>>}

Entry(k, v) == [key |-> k, value |-> v]

ScanClusters ==
    {<<Entry(<<"X">>, <<PA, PB>>)>>,
     <<Entry(<<"X">>, <<PB, PA>>)>>,
     <<Entry(<<"X">>, <<PA>>), Entry(<<"Y">>, <<PB>>)>>,
     <<Entry(<<"X">>, <<>>)>>}

InfoOf(name) ==
    [kind |-> "ParamInfo", name |-> name, type |-> <<"i">>, default |-> <<"8">>,
     range |-> <<"1", "-", "8">>, comment |-> <<>>]

Catalogs ==
    {<<Entry(PA, InfoOf(PA))>>,
     <<Entry(PB, InfoOf(PB)), Entry(PA, InfoOf(PA))>>}

InitScan ==
    /\ pc = "scan"
    /\ driver_root \in ScanTrees
    /\ clusters \in ScanClusters
    /\ params_info \in Catalogs
    /\ line = <<>>
    /\ decl = NoneVal
    /\ parsed = NoneVal
    /\ dependency_data = <<>>
    /\ scan_result = NoScan
    /\ candidates = <<>>
    /\ file_pairs = <<>>
    /\ cluster_pairs = <<>>
    /\ NoLoad /\ NoWorkers /\ NoJudge /\ NoAggregate

ScanFrame ==
    UNCHANGED <<line, decl, parsed, params_info, clusters, driver_root,
                dependency_data, file_pairs, cluster_pairs,
                LoadVars, WorkerVars, JudgeVars, AggVars>>

\* couple_extractor.py: one call of match_params_in_file
MatchParamsInFile ==
    /\ pc = "scan"
    /\ \E i \in 1..Len(driver_root), c \in 1..Len(clusters) :
          scan_result' =
              [variant |-> "couple_extractor", file |-> driver_root[i],
               cluster_params |-> clusters[c].value,
               result |-> match_params_in_file(driver_root[i], clusters[c].value,
                                               params_info)]
    /\ pc' = "matched"
    /\ UNCHANGED candidates
    /\ ScanFrame

\* couple_extractor2.py: one call of match_params_in_file
MatchParamsInFile2 ==
    /\ pc = "scan"
    /\ \E i \in 1..Len(driver_root), c \in 1..Len(clusters) :
          scan_result' =
              [variant |-> "couple_extractor2", file |-> driver_root[i],
               cluster_params |-> clusters[c].value,
               result |-> match_params_in_file2(driver_root[i], clusters[c].value,
                                                params_info)]
    /\ pc' = "matched"
    /\ UNCHANGED candidates
    /\ ScanFrame

\* string_filter.py: one call of match_params_in_file
SmartMatchParamsInFile ==
    /\ pc = "scan"
    /\ \E i \in 1..Len(driver_root), c \in 1..Len(clusters) :
          scan_result' =
              [variant |-> "string_filter", file |-> driver_root[i],
               cluster_params |-> clusters[c].value,
               result |-> smart_match_params_in_file(driver_root[i], clusters[c].value)]
    /\ pc' = "matched"
    /\ UNCHANGED candidates
    /\ ScanFrame

\* couple_extractor.py: StringMatcher.scan_all
ScanAll ==
    /\ pc = "scan"
    /\ candidates' = scan_all(driver_root, clusters, params_info)
    /\ scan_result' = [variant |-> "scan_all"]
    /\ pc' = "scanned"
    /\ ScanFrame

\* string_filter.py: SmartStringMatcher.parallel_scan
ParallelScan ==
    /\ pc = "scan"
    /\ \E failed \in SUBSET DictKeys(clusters) :
          /\ candidates' = parallel_scan(driver_root, clusters, failed)
          /\ scan_result' = [variant |-> "parallel_scan", failed |-> failed]
    /\ pc' = "scanned"
    /\ ScanFrame

NextScan ==
    \/ MatchParamsInFile
    \/ MatchParamsInFile2
    \/ SmartMatchParamsInFile
    \/ ScanAll
    \/ ParallelScan

SpecScan == InitScan /\ [][NextScan]_vars

----------------------------------------------------------------------------
(* What a scan delivered *)

\* the text the variant matches against
CleanedOf(variant, content) ==
    IF variant = "couple_extractor2" THEN content ELSE remove_noise(content)

FileByPath(path) ==
    driver_root[CHOOSE i \in 1..Len(driver_root) : driver_root[i].path = path]

\* name stands at offset p of s with no identifier character on either side
Isolated(name, s, p) ==
    /\ p + Len(name) <= Len(s)
    /\ SubSeq(s, p + 1, p + Len(name)) = name
    /\ CharAt(s, p) \notin WordChars
    /\ CharAt(s, p + Len(name) + 1) \notin WordChars

WholeWordOffsets(name, s) == {p \in 0..(Len(s) - 1) : Isolated(name, s, p)}

\* name occurs at offset p of s, as a word or inside one
OccursAt(name, s, p) ==
    p + Len(name) <= Len(s) /\ SubSeq(s, p + 1, p + Len(name)) = name

RECURSIVE Ascending(_)
Ascending(S) ==
    IF S = {} THEN <<>>
    ELSE LET m == CHOOSE x \in S : \A y \in S : x <= y
         IN  <<m>> \o Ascending(S \ {m})

\* the FileMatch of a single match_params_in_file call
SingleMatches ==
    IF pc = "matched" /\ scan_result.result.kind # "None"
    THEN {[variant |-> scan_result.variant,
           cleaned |-> CleanedOf(scan_result.variant, scan_result.file.content),
           matched |-> scan_result.result.matched_params,
           count |-> scan_result.result.match_count,
           contexts |-> IF scan_result.result.kind = "MatchResult"
                        THEN scan_result.result.code_contexts
                        ELSE scan_result.result.contexts]}
    ELSE {}

\* the FileMatches in the per-cluster lists of scan_all and parallel_scan
ListMatches ==
    IF pc = "scanned"
    THEN {[variant |-> scan_result.variant,
           cleaned |-> remove_noise(FileByPath(candidates[i].value[j].file).content),
           matched |-> candidates[i].value[j].matched_params,
           count |-> candidates[i].value[j].match_count,
           contexts |-> candidates[i].value[j].contexts] :
             <<i, j>> \in {ij \in (1..Len(candidates)) \X (1..Len(driver_root)) :
                              ij[2] <= Len(candidates[ij[1]].value)}}
    ELSE {}

Delivered == SingleMatches \cup ListMatches

PositionsOf(m, name) ==
    LET cs == SelectSeq(m.contexts, LAMBDA c : c.param = name)
    IN  [i \in 1..Len(cs) |-> cs[i].position]

\* C5: no scan, of any variant, reports a parameter that is not in the
\* parameter catalog.
C5_OnlyCatalogNames ==
    \A m \in Delivered : Range(m.matched) \subseteq DictKeys(params_info)

\* C6: match_params_in_file returns None when no name matched, in particular
\* for an empty candidate list, and when the file cannot be read; a FileMatch
\* has at least one matched name.
C6_NullWhenNothingMatched ==
    pc = "matched" =>
        /\ scan_result.result.kind # "None" => scan_result.result.matched_params # <<>>
        /\ scan_result.cluster_params = <<>> => scan_result.result.kind = "None"
        /\ ~scan_result.file.readable => scan_result.result.kind = "None"

\* C7: a reported name stands in the cleaned text as a whole word; an
\* occurrence inside a longer identifier does not count.
C7_WholeWordOnly ==
    \A m \in Delivered :
        \A n \in Range(m.matched) : WholeWordOffsets(n, m.cleaned) # {}

\* a call that was given A, with A in the catalog and in the text only inside
\* longer identifiers, and reported B alone
C7_Witness ==
    /\ pc = "matched"
    /\ scan_result.variant = "couple_extractor"
    /\ PA \in Range(scan_result.cluster_params)
    /\ PA \in DictKeys(params_info)
    /\ \E p \in 0..Len(scan_result.file.content) :
          OccursAt(PA, remove_noise(scan_result.file.content), p)
    /\ scan_result.result.kind = "FileMatchResult"
    /\ scan_result.result.matched_params = <<PB>>

\* C8: match_count is the number of distinct matched parameters.
C8_CountIsDistinctNames ==
    \A m \in Delivered : m.count = Cardinality(Range(m.matched))

\* C9: every matched parameter with n whole-word occurrences has exactly
\* min(n, 3) contexts, those of its first occurrences in ascending position.
C9_CapPerParameter ==
    \A m \in Delivered :
        \A n \in Range(m.matched) :
            LET offs == Ascending(WholeWordOffsets(n, m.cleaned))
            IN  PositionsOf(m, n) = SubSeq(offs, 1, Min(3, Len(offs)))

----------------------------------------------------------------------------
(* The pipeline of main: load, scan, pair *)

MaxDeps == 2

PC == <<"C">>

PipeTexts ==
    {<<>>, <<"A", " ">>, <<"A", " ", "B", " ">>, <<"B", " ", "C", "\n", "C">>,
     <<"C", " ">>}

PathA == "driver/dut/a.sv"
PathB == "driver/tb/b.v"
PathC == "driver/doc/c.txt"

PipeFile(path, text) == [path |-> path, content |-> text, readable |-> TRUE]

PipeTrees ==
    {<<PipeFile(PathA, t), PipeFile(PathB, u)>> : t \in PipeTexts, u \in PipeTexts}
        \cup {<<PipeFile(PathB, <<"A", " ", "B", " ">>), PipeFile(PathA, t)>> :
                 t \in PipeTexts}

PipeClusters ==
    {<<Entry(<<"X">>, <<PA>>), Entry(<<"Y">>, <<PB>>), Entry(<<"Z">>, <<PC>>)>>,
     <<Entry(<<"Y">>, <<PB>>), Entry(<<"X">>, <<PC, PA>>), Entry(<<"Z">>, <<PC>>)>>,
     <<Entry(<<"Z">>, <<PA, PC>>), Entry(<<"X">>, <<PA>>)>>}

PipeCatalog ==
    <<Entry(PA, InfoOf(PA)), Entry(PB, InfoOf(PB)), Entry(PC, InfoOf(PC))>>

\* caller and callee of a dependency: two scanned files and one file that is
\* not under driver_root
EdgePairs == {pq \in {PathA, PathB, PathC} \X {PathA, PathB, PathC} : pq[1] # pq[2]}

MkDeps(es) ==
    [i \in 1..Len(es) |->
        [source_path |-> es[i][1], target_path |-> es[i][2],
         module_type |-> "fifo", instance_name |-> i,
         description |-> <<"W", "(", "A", ")">>]]

Init ==
    /\ pc = "scan"
    /\ driver_root \in PipeTrees
    /\ clusters \in PipeClusters
    /\ params_info = PipeCatalog
    /\ dependency_data \in {MkDeps(es) : es \in SeqsUpTo(EdgePairs, MaxDeps)}
    /\ line = <<>>
    /\ decl = NoneVal
    /\ parsed = NoneVal
    /\ scan_result = NoScan
    /\ candidates = <<>>
    /\ file_pairs = <<>>
    /\ cluster_pairs = <<>>
    /\ NoLoad /\ NoWorkers /\ NoJudge /\ NoAggregate

PairFrame ==
    UNCHANGED <<line, decl, parsed, params_info, clusters, driver_root,
                dependency_data, scan_result, candidates,
                LoadVars, WorkerVars, JudgeVars, AggVars>>

\* FilePairBuilder(dependency_data, candidates).build_pairs()
BuildFilePairs ==
    /\ pc = "scanned"
    /\ file_pairs' = file_build_pairs(dependency_data, candidates)
    /\ pc' = "file_pairs"
    /\ UNCHANGED cluster_pairs
    /\ PairFrame

\* ClusterPairBuilder(dependency_data, candidates, clusters).build_pairs()
BuildClusterPairs ==
    /\ pc = "scanned"
    /\ cluster_pairs' = cluster_build_pairs(dependency_data, candidates)
    /\ pc' = "cluster_pairs"
    /\ UNCHANGED file_pairs
    /\ PairFrame

Next == ScanAll \/ BuildFilePairs \/ BuildClusterPairs

Spec == Init /\ [][Next]_vars

----------------------------------------------------------------------------
(* What the scanner output and the dependency list say about an edge or a   *)
(* pair of clusters                                                         *)

\* the clusters with a FileMatch for this path
MatchedClusters(path) ==
    {candidates[i].key : i \in {k \in 1..Len(candidates) :
        \E j \in 1..Len(candidates[k].value) : candidates[k].value[j].file = path}}

InMap(path) == MatchedClusters(path) # {}

AllPaths == {PathA, PathB, PathC}
AllUsed == UNION {MatchedClusters(f) : f \in AllPaths}

Classify(dep) ==
    LET a == dep.source_path
        b == dep.target_path
    IN  IF InMap(a) /\ InMap(b) THEN "INTER_FILE"
        ELSE IF InMap(a) /\ Cardinality(MatchedClusters(a)) > 1 THEN "caller"
        ELSE IF InMap(b) /\ Cardinality(MatchedClusters(b)) > 1 THEN "callee"
        ELSE "drop"

KeptDeps == SelectSeq(dependency_data, LAMBDA d : Classify(d) # "drop")

\* C1: the File-Pair strategy emits exactly one task for every edge with both
\* endpoints in the merged map (INTER_FILE) or with exactly one endpoint in the
\* map and more than one matched cluster at that endpoint
\* (INTRA_FILE_MULTI_CLUSTER for that endpoint), and none for any other edge.
C1_FilePairTasks ==
    pc = "file_pairs" =>
        /\ Len(file_pairs) = Len(KeptDeps)
        /\ Len(file_pairs) <= Len(dependency_data)
        /\ \A k \in 1..Len(file_pairs) :
              LET t == file_pairs[k]
                  d == KeptDeps[k]
              IN  /\ t.instance = d.instance_name
                  /\ IF Classify(d) = "INTER_FILE"
                     THEN /\ t.type = "INTER_FILE"
                          /\ t.caller_file = d.source_path
                          /\ t.callee_file = d.target_path
                     ELSE /\ t.type = "INTRA_FILE_MULTI_CLUSTER"
                          /\ t.role = Classify(d)
                          /\ t.file = (IF Classify(d) = "caller" THEN d.source_path
                                       ELSE d.target_path)
                          /\ t.other_file = (IF Classify(d) = "caller" THEN d.target_path
                                             ELSE d.source_path)

\* two edges, one kept for its multi-cluster endpoint and one dropped although
\* one endpoint matched (a single cluster)
C1_Witness ==
    /\ pc = "file_pairs"
    /\ Len(dependency_data) = 2
    /\ Len(file_pairs) = 1
    /\ file_pairs[1].type = "INTRA_FILE_MULTI_CLUSTER"
    /\ \E k \in 1..2 :
          /\ Classify(dependency_data[k]) = "drop"
          /\ InMap(dependency_data[k].source_path) # InMap(dependency_data[k].target_path)

\* C2: the Cluster-Pair task list holds at most one task per unordered pair of
\* distinct clusters.
C2_OneTaskPerPair ==
    pc = "cluster_pairs" =>
        \A i, j \in 1..Len(cluster_pairs) :
            /\ cluster_pairs[i].cluster_pair[1] # cluster_pairs[i].cluster_pair[2]
            /\ i # j => Range(cluster_pairs[i].cluster_pair)
                          # Range(cluster_pairs[j].cluster_pair)

\* several tasks, one of them for a pair met in both directions of a dependency
C2_Witness ==
    /\ pc = "cluster_pairs"
    /\ Len(cluster_pairs) >= 2
    /\ \E i \in 1..Len(cluster_pairs) :
          \E a, b \in 1..Len(cluster_pairs[i].contexts) :
              /\ cluster_pairs[i].contexts[a].type = "INTER_FILE"
              /\ cluster_pairs[i].contexts[b].type = "INTER_FILE"
              /\ cluster_pairs[i].contexts[a].direction
                    # cluster_pairs[i].contexts[b].direction

\* A and B share a file, or a dependency joins a file of one to a file of the other
HasEvidence(A, B) ==
    \/ \E f \in AllPaths : {A, B} \subseteq MatchedClusters(f)
    \/ \E k \in 1..Len(dependency_data) :
          LET d == dependency_data[k]
          IN  \/ A \in MatchedClusters(d.source_path) /\ B \in MatchedClusters(d.target_path)
              \/ B \in MatchedClusters(d.source_path) /\ A \in MatchedClusters(d.target_path)

\* C3: a pair of used clusters without any evidence never appears in the
\* Cluster-Pair task list.
C3_NoEvidenceNoTask ==
    pc = "cluster_pairs" =>
        \A i \in 1..Len(cluster_pairs) :
            HasEvidence(cluster_pairs[i].cluster_pair[1], cluster_pairs[i].cluster_pair[2])

\* two used clusters without evidence next to a pair that did get a task
C3_Witness ==
    /\ pc = "cluster_pairs"
    /\ cluster_pairs # <<>>
    /\ \E A, B \in AllUsed : A # B /\ ~HasEvidence(A, B)

CountWhere(seq, Test(_)) == Cardinality({i \in 1..Len(seq) : Test(seq[i])})

\* the evidence a pair (A, B) must carry: files with both clusters, and
\* (dependency, direction) with the caller's cluster first
IntraFilesOf(A, B) == {f \in AllPaths : {A, B} \subseteq MatchedClusters(f)}

InterEdgesOf(A, B) ==
    {<<k, dir>> \in (1..Len(dependency_data)) \X {<<A, B>>, <<B, A>>} :
        /\ dir[1] \in MatchedClusters(dependency_data[k].source_path)
        /\ dir[2] \in MatchedClusters(dependency_data[k].target_path)}

\* C4: the evidence of a pair (A, B) has exactly one intra-file item per file
\* that matched both clusters and exactly one inter-file item per (dependency,
\* direction) whose caller matched the first and whose callee matched the
\* second cluster of the direction, nothing else, and the direction tag names
\* the caller's cluster first.
C4_EvidenceExact ==
    pc = "cluster_pairs" =>
        \A i \in 1..Len(cluster_pairs) :
            LET A == cluster_pairs[i].cluster_pair[1]
                B == cluster_pairs[i].cluster_pair[2]
                cs == cluster_pairs[i].contexts
            IN  /\ \A f \in IntraFilesOf(A, B) :
                      CountWhere(cs, LAMBDA c : c.type = "INTRA_FILE" /\ c.file = f) = 1
                /\ \A e \in InterEdgesOf(A, B) :
                      CountWhere(cs, LAMBDA c :
                          /\ c.type = "INTER_FILE"
                          /\ c.instance = e[1]
                          /\ c.caller_file = dependency_data[e[1]].source_path
                          /\ c.callee_file = dependency_data[e[1]].target_path
                          /\ c.caller_cluster = e[2][1]
                          /\ c.callee_cluster = e[2][2]
                          /\ c.direction = e[2][1] \o <<RightArrow>> \o e[2][2]) = 1
                /\ Len(cs) = Cardinality(IntraFilesOf(A, B))
                                + Cardinality(InterEdgesOf(A, B))

\* a pair with an intra-file item and inter-file items in both directions
C4_Witness ==
    /\ pc = "cluster_pairs"
    /\ \E i \in 1..Len(cluster_pairs) :
          LET A == cluster_pairs[i].cluster_pair[1]
              B == cluster_pairs[i].cluster_pair[2]
          IN  /\ IntraFilesOf(A, B) # {}
              /\ \E e1, e2 \in InterEdgesOf(A, B) : e1[2] # e2[2]

----------------------------------------------------------------------------
(* Step 1: DependencyLoader.load *)

\* self.params_info[param_info.name] = param_info, for a line that parsed
LoadStepFirstWins(info, param_info) ==
    IF param_info.kind = "None" \/ param_info.name \in DictKeys(info) THEN info
    ELSE DictSet(info, param_info.name, param_info)

\* a line that did not parse empties the catalog
LoadStepResetOnNone(info, param_info) ==
    IF param_info.kind = "None" THEN <<>>
    ELSE DictSet(info, param_info.name, param_info)

LoadStep(info, param_info) ==
    IF param_info.kind = "None" THEN info
    ELSE DictSet(info, param_info.name, param_info)

\* for line in f: ...
RECURSIVE LoadLoop(_, _)
LoadLoop(lines, info) ==
    IF lines = <<>> THEN info
    ELSE LoadLoop(Tail(lines), LoadStep(info, parse_param_line(Head(lines))))

load_params(file, info) ==
    IF file.kind = "None" THEN info ELSE LoadLoop(file.lines, info)

load_clusters(file) ==
    IF file.kind = "None" THEN <<>> ELSE file.clusters

\* an open() of the file that is not there
load_dependency_unguarded(file) ==
    IF file.kind = "None" THEN [kind |-> "FileNotFoundError"]
    ELSE [kind |-> "dict", module_dependencies |-> file.module_dependencies]

\* self.dependency_data: the loaded document, {} when the file is missing;
\* module_dependencies is what the builders' chain of .get() finds in it
load_dependency(file) ==
    IF file.kind = "None" THEN [kind |-> "dict", module_dependencies |-> <<>>]
    ELSE [kind |-> "dict", module_dependencies |-> file.module_dependencies]

MaxLines == 3

LineOf(text) == text \o <<"\n">>

\* two declarations of A, one of B, a blank line, a comment line and a line
\* that is no declaration
LoadLines ==
    {LineOf(<<" ">>),
     LineOf(<<"A", "(", "i", ")", " ", "8">>),
     LineOf(<<"A", "(", "i", ")", " ", "3", " ", "(", "1", "-", "8", ")", " ", "#", "c">>),
     LineOf(<<"B", "(", "i", ")", " ", "8">>),
     LineOf(<<"#", " ", "c">>),
     LineOf(<<"A", " ", "8">>)}

ParamFiles ==
    {NoneVal} \cup {[kind |-> "file", lines |-> ls] : ls \in SeqsUpTo(LoadLines, MaxLines)}

LoadClusters ==
    {NoneVal,
     [kind |-> "file", clusters |-> <<Entry(<<"X">>, <<PA>>), Entry(<<"Y">>, <<PB>>)>>],
     [kind |-> "file", clusters |-> <<Entry(<<"Y">>, <<PB, PA>>), Entry(<<"X">>, <<PA>>)>>]}

LoadDependencies ==
    {NoneVal,
     [kind |-> "file", module_dependencies |-> <<>>],
     [kind |-> "file", module_dependencies |-> MkDeps(<<<<PathA, PathB>>>>)],
     [kind |-> "file",
      module_dependencies |-> MkDeps(<<<<PathB, PathA>>, <<PathA, PathC>>>>)]}

LoadTrees ==
    {<<PipeFile(PathA, <<"A", " ", "B", " ">>), PipeFile(PathB, <<"B", " ">>)>>,
     <<PipeFile(PathA, <<"A", " ">>), PipeFile(PathB, <<"B", " ", "A", " ">>)>>}

InitLoad ==
    /\ pc = "load"
    /\ params_file \in ParamFiles
    /\ clusters_json \in LoadClusters
    /\ dependency_json \in LoadDependencies
    /\ root_readable = TRUE
    /\ driver_root \in LoadTrees
    /\ params_info = <<>>
    /\ clusters = <<>>
    /\ dependency_data = <<>>
    /\ line = <<>>
    /\ decl = NoneVal
    /\ parsed = NoneVal
    /\ scan_result = NoScan
    /\ candidates = <<>>
    /\ file_pairs = <<>>
    /\ cluster_pairs = <<>>
    /\ NoWorkers /\ NoJudge /\ NoAggregate

\* DependencyLoader.load
Load ==
    /\ pc = "load"
    /\ LET dep == load_dependency(dependency_json)
       IN  IF dep.kind = "dict"
           THEN /\ dependency_data' = dep.module_dependencies
                /\ clusters' = load_clusters(clusters_json)
                /\ params_info' = load_params(params_file, params_info)
                /\ pc' = "scan"
           ELSE /\ pc' = "aborted"
                /\ UNCHANGED <<dependency_data, clusters, params_info>>
    /\ UNCHANGED <<line, decl, parsed, driver_root, scan_result, candidates,
                   file_pairs, cluster_pairs>>
    /\ UNCHANGED <<LoadVars, WorkerVars, JudgeVars, AggVars>>

NextLoad == Load \/ ScanAll \/ BuildFilePairs \/ BuildClusterPairs

SpecLoad == InitLoad /\ [][NextLoad]_vars

\* the definitions the lines of the parameter file parse to
ParsedLines ==
    IF params_file.kind = "None" THEN <<>>
    ELSE [i \in 1..Len(params_file.lines) |-> parse_param_line(params_file.lines[i])]

ValidLines(pl) == {i \in 1..Len(pl) : pl[i].kind = "ParamInfo"}

DeclaredNames(pl) == {pl[i].name : i \in ValidLines(pl)}

LastDeclaring(pl, n) ==
    CHOOSE i \in ValidLines(pl) :
        /\ pl[i].name = n
        /\ \A j \in ValidLines(pl) : pl[j].name = n => j <= i

\* C11: after load the catalog has exactly one entry per distinct declared
\* name, and each name maps to the definition of the last valid line that
\* declares it.
C11_LastWriteWins ==
    pc # "load" =>
        LET pl == ParsedLines
            names == DeclaredNames(pl)
        IN  /\ DictKeys(params_info) = names
            /\ Len(params_info) = Cardinality(names)
            /\ \A n \in names : DictGet(params_info, n) = pl[LastDeclaring(pl, n)]

\* a name declared twice with different definitions has been loaded
C11_Witness ==
    /\ pc = "scan"
    /\ LET pl == ParsedLines
       IN  \E i, j \in ValidLines(pl) :
              /\ i < j
              /\ pl[i].name = pl[j].name
              /\ pl[i] # pl[j]
              /\ DictGet(params_info, pl[j].name) = pl[j]

\* the clusters that share a file of the scanner output
SharingPairs ==
    {pair \in DictKeys(clusters) \X DictKeys(clusters) :
        /\ pair[1] # pair[2]
        /\ \E i \in 1..Len(DictGet(candidates, pair[1])),
              j \in 1..Len(DictGet(candidates, pair[2])) :
              DictGet(candidates, pair[1])[i].file = DictGet(candidates, pair[2])[j].file}

----------------------------------------------------------------------------
(* SmartStringMatcher.parallel_scan, worker by worker *)

ParallelTrees ==
    {<<PipeFile(PathA, t), PipeFile(PathB, <<"B", " ", "A", "\n", "B">>)>> :
        t \in {<<>>, <<"A", " ">>, <<"A", " ", "C", " ", "C", " ">>}}

ParallelClusters ==
    {<<Entry(<<"X">>, <<PA>>), Entry(<<"Y">>, <<PB>>), Entry(<<"Z">>, <<PC>>)>>,
     <<Entry(<<"Y">>, <<PB, PA>>), Entry(<<"X">>, <<PC>>)>>}

InitParallel ==
    /\ pc = "scan"
    /\ driver_root \in ParallelTrees
    /\ clusters \in ParallelClusters
    /\ params_info = PipeCatalog
    /\ dependency_data = <<>>
    /\ line = <<>>
    /\ decl = NoneVal
    /\ parsed = NoneVal
    /\ scan_result = NoScan
    /\ candidates = <<>>
    /\ file_pairs = <<>>
    /\ cluster_pairs = <<>>
    /\ NoLoad /\ NoWorkers /\ NoJudge /\ NoAggregate

ParallelFrame ==
    UNCHANGED <<line, decl, parsed, params_info, clusters, driver_root,
                dependency_data, file_pairs, cluster_pairs,
                LoadVars, JudgeVars, AggVars>>

Running == [state |-> "running", joined |-> FALSE]

\* executor.submit(self.scan_cluster, name, params) for every cluster
Submit ==
    /\ pc = "scan"
    /\ futures' = [i \in 1..Len(clusters) |-> Entry(clusters[i].key, Running)]
    /\ scan_result' = [variant |-> "parallel_workers", completed |-> <<>>]
    /\ pc' = "workers"
    /\ UNCHANGED candidates
    /\ ParallelFrame

\* the worker of one cluster finishes scan_cluster
WorkerReturn ==
    /\ pc = "workers"
    /\ \E i \in 1..Len(futures) :
          /\ futures[i].value.state = "running"
          /\ futures' =
                [futures EXCEPT ![i].value =
                    [state |-> "returned", joined |-> FALSE,
                     result |-> smart_scan_cluster(driver_root, clusters[i].value)]]
          /\ scan_result' =
                [scan_result EXCEPT !.completed = Append(@, futures[i].key)]
    /\ UNCHANGED <<pc, candidates>>
    /\ ParallelFrame

\* the worker of one cluster raises
WorkerRaise ==
    /\ pc = "workers"
    /\ \E i \in 1..Len(futures) :
          /\ futures[i].value.state = "running"
          /\ futures' = [futures EXCEPT ![i].value = [state |-> "raised", joined |-> FALSE]]
          /\ scan_result' =
                [scan_result EXCEPT !.completed = Append(@, futures[i].key)]
    /\ UNCHANGED <<pc, candidates>>
    /\ ParallelFrame

Joined(futs) == Cardinality({i \in 1..Len(futs) : futs[i].value.joined})

\* the future taken for the k-th cluster, had the loop paired the clusters
\* with the futures in their order of completion
JoinedFutureAsCompleted(futs, completed, k) ==
    IF k <= Len(completed) THEN DictGet(futs, completed[k]) ELSE futs[k].value

\* for future in futures: the k-th future submitted, whose name is the k-th
\* cluster's
JoinedFuture(futs, completed, k) == futs[k].value

\* the body of the loop: future.result() and the entry, or the except branch
JoinFuture(all_results, name, future) ==
    IF future.state = "raised" THEN all_results
    ELSE DictSet(all_results, name, ParallelEntry(future.result))

\* one iteration of the loop over the futures; future.result() blocks until
\* that worker is done
JoinNext ==
    /\ pc = "workers"
    /\ Joined(futures) < Len(futures)
    /\ LET k == Joined(futures) + 1
           future == JoinedFuture(futures, scan_result.completed, k)
       IN  /\ future.state # "running"
           /\ candidates' = JoinFuture(candidates, futures[k].key, future)
           /\ futures' = [futures EXCEPT ![k].value.joined = TRUE]
    /\ UNCHANGED <<pc, scan_result>>
    /\ ParallelFrame

\* return all_results
ParallelReturn ==
    /\ pc = "workers"
    /\ Joined(futures) = Len(futures)
    /\ pc' = "scanned"
    /\ UNCHANGED <<futures, scan_result, candidates>>
    /\ ParallelFrame

NextParallel == Submit \/ WorkerReturn \/ WorkerRaise \/ JoinNext \/ ParallelReturn

SpecParallel == InitParallel /\ [][NextParallel]_vars

RaisedWorkers == {futures[i].key : i \in {j \in 1..Len(futures) : futures[j].value.state = "raised"}}

\* C18: whatever the order in which the workers finish, the merged map has an
\* entry exactly for the clusters whose worker did not raise, each entry is
\* what that cluster's scan alone gives, and the scan returns.
C18_MergedMapPerCluster ==
    /\ pc = "scanned" =>
          /\ DictKeys(candidates) = DictKeys(clusters) \ RaisedWorkers
          /\ Len(candidates) = Cardinality(DictKeys(candidates))
          /\ \A i \in 1..Len(clusters) :
                clusters[i].key \notin RaisedWorkers =>
                    DictGet(candidates, clusters[i].key) =
                        ParallelEntry(smart_scan_cluster(driver_root, clusters[i].value))
    /\ (pc = "workers" /\ \A i \in 1..Len(futures) : futures[i].value.state # "running")
          => ENABLED (JoinNext \/ ParallelReturn)

\* the last cluster's worker finished first, one worker raised, and the map
\* returned holds a non-empty entry of another cluster
C18_Witness ==
    /\ pc = "scanned"
    /\ scan_result.completed[1] = clusters[Len(clusters)].key
    /\ RaisedWorkers # {}
    /\ \E i \in 1..Len(candidates) : candidates[i].value # <<>>

----------------------------------------------------------------------------
(* Step 4: LLMCouplingAnalyzer.analyze_all and the judge it calls *)

\* a key the judgment may leave out, for dict.get(key, default)
Absent == [kind |-> "absent"]
Given(v) == [kind |-> "given", value |-> v]
GetOr(field, default) == IF field.kind = "absent" THEN default ELSE field.value

MaxCouplings == 1

\* one entry of a judgment's couplings list
Coupling(p1, p2, c1, c2, type, confidence) ==
    [param1 |-> p1, param2 |-> p2, param1_cluster |-> c1, param2_cluster |-> c2,
     type |-> type, description |-> <<"W">>, rule |-> p1 \o <<"=">> \o p2,
     confidence |-> confidence, reasoning |-> <<>>, evidence_contexts |-> <<1>>]

\* A -> B twice with different attributes, B -> A tagged with the clusters
\* the other way round, and A -> C with another cluster named for A
CouplingEntries ==
    {Coupling(PA, PB, Absent, Absent, "DIRECT_PASS", Given("high")),
     Coupling(PA, PB, Given(<<"X">>), Given(<<"Y">>), "CONSTRAINT", Absent),
     Coupling(PB, PA, Given(<<"Y">>), Given(<<"X">>), "SEMANTIC", Given("low")),
     Coupling(PA, PC, Given(<<"Z">>), Absent, "DERIVATION", Given("high"))}

Judgment(has_coupling, couplings) ==
    [kind |-> "Judgment", has_coupling |-> has_coupling,
     analysis_summary |-> <<"c">>, couplings |-> couplings]

\* what one call of the judge can come back with: a judgment (positive, or
\* negative with or without entries), nothing, or a failure
JudgeOutcomes ==
    {Judgment(TRUE, cs) : cs \in SeqsUpTo(CouplingEntries, MaxCouplings)}
        \cup {Judgment(FALSE, <<>>),
              Judgment(FALSE, <<Coupling(PA, PB, Absent, Absent, "SEMANTIC", Given("low"))>>),
              NoneVal,
              [kind |-> "Failure"]}

\* the test without has_coupling: any judgment that came back
AnyJudgment(analysis) == analysis.kind = "Judgment"

\* analysis and analysis.get('has_coupling')
Positive(analysis) == analysis.kind = "Judgment" /\ analysis.has_coupling


\* _format_params_info: one line of the list
FormatParamLine(p) ==
    <<"-", " ", "*", "*">> \o p.name \o <<"*", "*", " ", "(">> \o p.type \o <<")">>
        \o (IF p.default # <<>> THEN <<" ", "=", " ">> \o p.default ELSE <<>>)
        \o (IF p.range # <<>> THEN <<" ", "[">> \o p.range \o <<"]">> ELSE <<>>)
        \o (IF p.comment # <<>> THEN <<" ", " ", "/", "/", " ">> \o p.comment ELSE <<>>)

\* '\n'.join(lines)
RECURSIVE JoinLines(_)
JoinLines(lines) ==
    IF lines = <<>> THEN <<>>
    ELSE IF Len(lines) = 1 THEN lines[1]
    ELSE lines[1] \o <<"\n">> \o JoinLines(Tail(lines))

NoParameters ==
    <<" ", " ", "(", "N", "o", " ", "p", "a", "r", "a", "m", "e", "t", "e", "r", "s", ")">>

_format_params_info(infos) ==
    IF infos = <<>> THEN NoParameters
    ELSE JoinLines([i \in 1..Len(infos) |-> FormatParamLine(infos[i])])

\* generate_prompt: one entry of the "Code Contexts" list
PromptContext(ctx) ==
    IF ctx.type = "INTRA_FILE"
    THEN [type |-> "INTRA_FILE", file |-> ctx.file,
          cluster1_count |-> Len(ctx.cluster1_params.params),
          cluster2_count |-> Len(ctx.cluster2_params.params)]
    ELSE [type |-> "INTER_FILE", caller_file |-> ctx.caller_file,
          callee_file |-> ctx.callee_file, direction |-> ctx.direction,
          module |-> ctx.module, instance |-> ctx.instance,
          instantiation_code |-> ctx.instantiation_code]

\* generate_prompt: the document, as the values the template is filled with;
\* cluster1_definitions is the text under "Cluster 1 Parameter Definitions"
\* and cluster2_definitions the text under "Cluster 2 Parameter Definitions"
generate_prompt(pair_task) ==
    LET cluster1 == pair_task.cluster_pair[1]
        cluster2 == pair_task.cluster_pair[2]
        contexts == pair_task.contexts
        first_ctx == contexts[1]
        cluster1_params == IF first_ctx.type = "INTRA_FILE"
                           THEN first_ctx.cluster1_params.params_info
                           ELSE first_ctx.caller_params.params_info
        cluster2_params == IF first_ctx.type = "INTRA_FILE"
                           THEN first_ctx.cluster2_params.params_info
                           ELSE first_ctx.callee_params.params_info
    IN  [cluster1 |-> cluster1,
         cluster2 |-> cluster2,
         cluster1_definitions |-> _format_params_info(cluster1_params),
         cluster2_definitions |-> _format_params_info(cluster2_params),
         context_count |-> Len(contexts),
         contexts |-> [i \in 1..Len(contexts) |-> PromptContext(contexts[i])]]

\* analyze_all: the try block of one iteration, given what call_llm did
AnalyzeOutcome(results, pair_task, analysis) ==
    IF analysis.kind # "Failure" /\ Positive(analysis)
    THEN Append(results,
             [cluster_pair |-> pair_task.cluster_pair,
              contexts |-> pair_task.contexts,
              context_count |-> pair_task.context_count,
              has_intra_file |-> pair_task.has_intra_file,
              has_inter_file |-> pair_task.has_inter_file,
              analysis |-> analysis])
    ELSE results

----------------------------------------------------------------------------
(* Step 6: CouplingExtractor *)

\* extract: the record built from one coupling entry of one result
EnrichedCoupling(result, coupling) ==
    [param1 |-> coupling.param1,
     param2 |-> coupling.param2,
     param1_cluster |-> GetOr(coupling.param1_cluster, result.cluster_pair[1]),
     param2_cluster |-> GetOr(coupling.param2_cluster, result.cluster_pair[2]),
     type |-> coupling.type,
     description |-> coupling.description,
     rule |-> coupling.rule,
     confidence |-> GetOr(coupling.confidence, "medium"),
     reasoning |-> coupling.reasoning,
     evidence_contexts |-> coupling.evidence_contexts,
     context_count |-> result.context_count,
     has_intra_file |-> result.has_intra_file,
     has_inter_file |-> result.has_inter_file]

\* extract that keeps one record per (param1, param2)
ExtractResultDedup(all_couplings, result) ==
    LET cs == result.analysis.couplings
        fresh == SelectSeq([i \in 1..Len(cs) |-> EnrichedCoupling(result, cs[i])],
                     LAMBDA r : \A k \in 1..Len(all_couplings) :
                         <<all_couplings[k].param1, all_couplings[k].param2>>
                             # <<r.param1, r.param2>>)
    IN  all_couplings \o fresh

\* extract: the inner loop over one result's couplings
ExtractResult(all_couplings, result) ==
    LET cs == result.analysis.couplings
    IN  all_couplings \o [i \in 1..Len(cs) |-> EnrichedCoupling(result, cs[i])]

RECURSIVE ExtractLoop(_, _)
ExtractLoop(results, all_couplings) ==
    IF results = <<>> THEN all_couplings
    ELSE ExtractLoop(Tail(results), ExtractResult(all_couplings, Head(results)))

\* CouplingExtractor(llm_results).extract()
extract(results) == ExtractLoop(results, <<>>)

\* if p1 and p2
Truthy(p) == p # <<>>

EmptyGraph == [kind |-> "DiGraph", nodes |-> <<>>, edges |-> <<>>]

\* G.add_node(n, cluster=...): a new node, or the attribute of an existing
\* node updated
add_node(G, n, cluster) ==
    [G EXCEPT !.nodes = DictSet(G.nodes, n, [cluster |-> cluster])]

\* G.add_edge(p1, p2, **attrs): a new edge, or the attributes of the existing
\* edge p1 -> p2 updated
add_edge(G, p1, p2, attrs) ==
    [G EXCEPT !.edges = DictSet(G.edges, <<p1, p2>>, attrs)]

\* the loop body with param1's cluster given to both nodes
GraphStepSameCluster(G, c) ==
    IF Truthy(c.param1) /\ Truthy(c.param2)
    THEN add_edge(add_node(add_node(G, c.param1, c.param1_cluster),
                           c.param2, c.param1_cluster),
                  c.param1, c.param2,
                  [type |-> c.type, description |-> c.description,
                   rule |-> c.rule, confidence |-> c.confidence])
    ELSE G

\* build_graph: the body of the loop
GraphStep(G, c) ==
    IF Truthy(c.param1) /\ Truthy(c.param2)
    THEN add_edge(add_node(add_node(G, c.param1, c.param1_cluster),
                           c.param2, c.param2_cluster),
                  c.param1, c.param2,
                  [type |-> c.type, description |-> c.description,
                   rule |-> c.rule, confidence |-> c.confidence])
    ELSE G

RECURSIVE GraphLoop(_, _)
GraphLoop(couplings, G) ==
    IF couplings = <<>> THEN G
    ELSE GraphLoop(Tail(couplings), GraphStep(G, Head(couplings)))

\* CouplingExtractor.build_graph
build_graph(couplings) == GraphLoop(couplings, EmptyGraph)

\* defaultdict(int)[k] += 1
CountInc(d, k) == DictSet(d, k, IF k \in DictKeys(d) THEN DictGet(d, k) + 1 ELSE 1)

\* dict.get(k, 0)
GetCount(d, k) == IF k \in DictKeys(d) THEN DictGet(d, k) ELSE 0

\* the counting loop, over the keys of the records in list order
RECURSIVE CountKeys(_, _)
CountKeys(keys, d) ==
    IF keys = <<>> THEN d
    ELSE CountKeys(Tail(keys), CountInc(d, Head(keys)))

\* the pair as the record tags it
SummaryPairKeyAsTagged(c) == <<c.param1_cluster, c.param2_cluster>>

\* tuple(sorted([c1, c2]))
SummaryPairKey(c) == sorted(<<c.param1_cluster, c.param2_cluster>>)

\* the second loop of generate_summary
UniqueParams(couplings) ==
    {couplings[i].param1 : i \in {k \in 1..Len(couplings) : Truthy(couplings[k].param1)}}
        \cup
    {couplings[i].param2 : i \in {k \in 1..Len(couplings) : Truthy(couplings[k].param2)}}

\* CouplingExtractor.generate_summary
generate_summary(couplings) ==
    LET n == Len(couplings)
        type_counts == CountKeys([i \in 1..n |-> couplings[i].type], <<>>)
        conf_counts == CountKeys([i \in 1..n |-> couplings[i].confidence], <<>>)
        cluster_pair_counts ==
            CountKeys([i \in 1..n |-> SummaryPairKey(couplings[i])], <<>>)
    IN  [kind |-> "Summary",
         total_couplings |-> Len(couplings),
         unique_parameters |-> Cardinality(UniqueParams(couplings)),
         unique_cluster_pairs |-> Len(cluster_pair_counts),
         by_type |-> type_counts,
         by_confidence |-> conf_counts,
         by_cluster_pair |-> cluster_pair_counts,
         high_confidence_count |-> GetCount(conf_counts, "high"),
         medium_confidence_count |-> GetCount(conf_counts, "medium"),
         low_confidence_count |-> GetCount(conf_counts, "low")]

----------------------------------------------------------------------------
(* Step 5: build_coupling_matrix *)

\* used_clusters is None: the clusters named by the results
InferredClusters(results) ==
    UNION {{results[i].cluster_pair[1], results[i].cluster_pair[2]} :
              i \in 1..Len(results)}

DefaultCell == [has_coupling |-> FALSE, coupling_count |-> 0, context_count |-> 0]

CouplingInfo(result) ==
    [has_coupling |-> TRUE,
     coupling_count |-> Len(result.analysis.couplings),
     context_count |-> result.context_count,
     has_intra_file |-> result.has_intra_file,
     has_inter_file |-> result.has_inter_file,
     summary |-> result.analysis.analysis_summary,
     couplings |-> result.analysis.couplings]

\* matrix[c1][c2] = coupling_info; matrix[c2][c1] = coupling_info
RECURSIVE FillMatrix(_, _)
FillMatrix(results, matrix) ==
    IF results = <<>> THEN matrix
    ELSE LET c1 == Head(results).cluster_pair[1]
             c2 == Head(results).cluster_pair[2]
             info == CouplingInfo(Head(results))
         IN  FillMatrix(Tail(results),
                 [[matrix EXCEPT ![c1][c2] = info] EXCEPT ![c2][c1] = info])

\* sum(r['analysis'].get('couplings', []) for r in llm_results): sum() starts
\* from the integer 0, and 0 + list is a TypeError
SumOfLists(lists) ==
    IF lists = <<>> THEN [kind |-> "int", value |-> 0]
    ELSE [kind |-> "TypeError"]

\* sum(len(couplings) for couplings in total_couplings): an int cannot be
\* iterated
SumOfLens(total_couplings) ==
    IF total_couplings.kind = "int" THEN [kind |-> "TypeError"]
    ELSE total_couplings

\* build_coupling_matrix(llm_results, clusters_def), as main calls it: the
\* matrix it returns, or the exception that its statistics raise
build_coupling_matrix(results) ==
    LET cluster_list == InferredClusters(results)
        matrix == FillMatrix(results,
                      [c1 \in cluster_list |-> [c2 \in cluster_list |-> DefaultCell]])
        total_couplings ==
            SumOfLists([i \in 1..Len(results) |-> results[i].analysis.couplings])
        total_couplings_count == SumOfLens(total_couplings)
    IN  IF total_couplings_count.kind = "TypeError" THEN total_couplings_count
        ELSE [kind |-> "matrix", cells |-> matrix]

----------------------------------------------------------------------------
(* Judging and aggregating the Cluster-Pair tasks of a scanned tree *)

JudgeTree(a, b) == <<PipeFile(PathA, a), PipeFile(PathB, b)>>

\* a tree where X, Y share a.sv and Y, Z share b.v; a tree where X and Y meet
\* only through the dependency a.sv -> b.v, or b.v -> a.sv; a tree without
\* any match
JudgeInputs ==
    {[tree |-> JudgeTree(<<"A", " ", "B", " ">>, <<"B", " ", "C", "\n", "C">>),
      deps |-> MkDeps(<<>>), empty_task |-> FALSE],
     [tree |-> JudgeTree(<<"A", " ">>, <<"B", " ">>),
      deps |-> MkDeps(<<<<PathA, PathB>>>>), empty_task |-> FALSE],
     [tree |-> JudgeTree(<<"A", " ">>, <<"B", " ">>),
      deps |-> MkDeps(<<<<PathB, PathA>>>>), empty_task |-> FALSE],
     [tree |-> JudgeTree(<<"A", " ">>, <<"B", " ">>),
      deps |-> MkDeps(<<<<PathA, PathB>>>>), empty_task |-> TRUE],
     [tree |-> JudgeTree(<<>>, <<>>), deps |-> MkDeps(<<>>), empty_task |-> FALSE]}

JudgeClusters ==
    <<Entry(<<"X">>, <<PA>>), Entry(<<"Y">>, <<PB>>), Entry(<<"Z">>, <<PC>>)>>

\* a task without contexts, which no builder emits but analyze_all accepts
EmptyTask ==
    [cluster_pair |-> <<<<"X">>, <<"Z">>>>, contexts |-> <<>>, context_count |-> 0,
     has_intra_file |-> FALSE, has_inter_file |-> FALSE]

InitJudge ==
    /\ pc = "judge"
    /\ \E in \in JudgeInputs :
          /\ driver_root = in.tree
          /\ dependency_data = in.deps
          /\ cluster_pairs =
                (IF in.empty_task THEN <<EmptyTask>> ELSE <<>>)
                    \o cluster_build_pairs(in.deps,
                           scan_all(in.tree, JudgeClusters, PipeCatalog))
    /\ clusters = JudgeClusters
    /\ params_info = PipeCatalog
    /\ candidates = scan_all(driver_root, clusters, params_info)
    /\ line = <<>>
    /\ decl = NoneVal
    /\ parsed = NoneVal
    /\ scan_result = [variant |-> "scan_all"]
    /\ file_pairs = <<>>
    /\ NoLoad /\ NoWorkers /\ NoJudge /\ NoAggregate

JudgeFrame ==
    UNCHANGED <<line, decl, parsed, params_info, clusters, driver_root,
                dependency_data, scan_result, candidates, file_pairs, cluster_pairs,
                LoadVars, WorkerVars>>

\* an exception of the judge that leaves the loop
NextIndexAbort(index, n, analysis) ==
    IF analysis.kind = "Failure" THEN n ELSE index + 1

\* the for loop goes on to the next task, also after the except branch
NextIndex(index, n, analysis) == index + 1

\* analyze_all: one iteration of the loop over the tasks, with the call of
\* the judge and what it comes back with
AnalyzeStep ==
    /\ pc = "judge"
    /\ task_index < Len(cluster_pairs)
    /\ LET pair_task == cluster_pairs[task_index + 1]
       IN  IF pair_task.context_count = 0
           THEN /\ task_index' = task_index + 1
                /\ UNCHANGED <<judge_log, llm_results>>
           ELSE \E analysis \in JudgeOutcomes :
                   /\ judge_log' = Append(judge_log,
                                       [task |-> task_index + 1,
                                        prompt |-> generate_prompt(pair_task),
                                        outcome |-> analysis])
                   /\ llm_results' = AnalyzeOutcome(llm_results, pair_task, analysis)
                   /\ task_index' = NextIndex(task_index, Len(cluster_pairs), analysis)
    /\ UNCHANGED <<pc, AggVars>>
    /\ JudgeFrame

\* analyze_all: return results
AnalyzeReturn ==
    /\ pc = "judge"
    /\ task_index = Len(cluster_pairs)
    /\ pc' = "judged"
    /\ UNCHANGED <<JudgeVars, AggVars>>
    /\ JudgeFrame

\* main, step 5: build_coupling_matrix(llm_results, loader.clusters). What the
\* call does, an exception included, is kept in coupling_matrix. main catches
\* nothing, so it goes on to step 6 only when the call returns; the methods
\* of CouplingExtractor are applied below to the same llm_results whatever
\* the call did, as any caller holding the results applies them.
BuildCouplingMatrix ==
    /\ pc = "judged"
    /\ coupling_matrix' = build_coupling_matrix(llm_results)
    /\ pc' = "matrix"
    /\ UNCHANGED <<JudgeVars, param_couplings, summary, graph, previous>>
    /\ JudgeFrame

\* main, step 6: CouplingExtractor(llm_results).extract()
Extract ==
    /\ pc = "matrix"
    /\ param_couplings' = extract(llm_results)
    /\ pc' = "extracted"
    /\ UNCHANGED <<JudgeVars, summary, graph, coupling_matrix, previous>>
    /\ JudgeFrame

\* extractor.generate_summary(param_couplings)
GenerateSummary ==
    /\ pc = "extracted"
    /\ summary' = generate_summary(param_couplings)
    /\ pc' = "summarised"
    /\ UNCHANGED <<JudgeVars, param_couplings, graph, coupling_matrix, previous>>
    /\ JudgeFrame

\* extractor.build_graph(param_couplings)
BuildGraph ==
    /\ pc = "summarised"
    /\ graph' = build_graph(param_couplings)
    /\ pc' = "graphed"
    /\ UNCHANGED <<JudgeVars, param_couplings, summary, coupling_matrix, previous>>
    /\ JudgeFrame

\* the aggregation run a second time on the same llm_results
AggregateAgain ==
    /\ pc = "graphed"
    /\ previous' = [kind |-> "run", llm_results |-> llm_results, summary |-> summary,
                    coupling_matrix |-> coupling_matrix]
    /\ param_couplings' = extract(llm_results)
    /\ summary' = generate_summary(extract(llm_results))
    /\ coupling_matrix' = build_coupling_matrix(llm_results)
    /\ pc' = "aggregated_twice"
    /\ UNCHANGED <<JudgeVars, graph>>
    /\ JudgeFrame

NextJudge ==
    \/ AnalyzeStep
    \/ AnalyzeReturn
    \/ BuildCouplingMatrix
    \/ Extract
    \/ GenerateSummary
    \/ BuildGraph
    \/ AggregateAgain

SpecJudge == InitJudge /\ [][NextJudge]_vars

----------------------------------------------------------------------------
(* The aggregator's outputs *)

\* the result that analyze_all kept for the pair {A, B}, if any
ResultsFor(A, B) ==
    {i \in 1..Len(llm_results) :
        {llm_results[i].cluster_pair[1], llm_results[i].cluster_pair[2]} = {A, B}}

\* C12: build_coupling_matrix returns a square table over the used cluster
\* set; the two cells of every pair with a positive judgment hold the same
\* coupling info with has_coupling true, and every other cell is the default.
C12_MatrixOverUsedClusters ==
    pc \in {"matrix", "extracted", "summarised", "graphed", "aggregated_twice"} =>
        /\ coupling_matrix.kind = "matrix"
        /\ DOMAIN coupling_matrix.cells = AllUsed
        /\ \A A \in AllUsed : DOMAIN coupling_matrix.cells[A] = AllUsed
        /\ \A A, B \in AllUsed :
              IF ResultsFor(A, B) # {}
              THEN /\ coupling_matrix.cells[A][B] = coupling_matrix.cells[B][A]
                   /\ coupling_matrix.cells[A][B].has_coupling
                   /\ \E i \in ResultsFor(A, B) :
                         coupling_matrix.cells[A][B].couplings =
                             llm_results[i].analysis.couplings
              ELSE coupling_matrix.cells[A][B] = DefaultCell

\* C13: the aggregation run twice on the same results gives a Summary and a
\* ClusterCouplingMatrix both times, the same ones, and leaves the results as
\* they were.
C13_AggregatorIdempotent ==
    pc = "aggregated_twice" =>
        /\ summary.kind = "Summary"
        /\ previous.summary = summary
        /\ previous.llm_results = llm_results
        /\ coupling_matrix.kind = "matrix"
        /\ previous.coupling_matrix = coupling_matrix

Extracted == pc \in {"extracted", "summarised", "graphed", "aggregated_twice"}
Graphed == pc \in {"graphed", "aggregated_twice"}

\* the coupling entries of all results, in order
FlatEntries == Cat([i \in 1..Len(llm_results) |-> llm_results[i].analysis.couplings])

PairOf(r) == <<r.param1, r.param2>>

LastWithPair(pr) ==
    CHOOSE k \in 1..Len(param_couplings) :
        /\ PairOf(param_couplings[k]) = pr
        /\ \A j \in 1..Len(param_couplings) : PairOf(param_couplings[j]) = pr => j <= k

\* C14: the flat list has one record per coupling entry of every result, in
\* order and without deduplication; the graph has one edge per ordered pair
\* (param1, param2), with the attributes of the last record of that pair.
C14_ListKeepsGraphOverwrites ==
    /\ Extracted =>
          /\ Len(param_couplings) = Len(FlatEntries)
          /\ \A k \in 1..Len(param_couplings) :
                /\ PairOf(param_couplings[k]) = PairOf(FlatEntries[k])
                /\ param_couplings[k].type = FlatEntries[k].type
                /\ param_couplings[k].rule = FlatEntries[k].rule
    /\ Graphed =>
          /\ DictKeys(graph.edges) = {PairOf(r) : r \in Range(param_couplings)}
          /\ Len(graph.edges) = Cardinality(DictKeys(graph.edges))
          /\ \A pr \in DictKeys(graph.edges) :
                LET r == param_couplings[LastWithPair(pr)]
                IN  DictGet(graph.edges, pr) =
                        [type |-> r.type, description |-> r.description,
                         rule |-> r.rule, confidence |-> r.confidence]

\* two records of the same ordered pair with different types went into the
\* graph
C14_Witness ==
    /\ pc = "graphed"
    /\ \E i, j \in 1..Len(param_couplings) :
          /\ i < j
          /\ PairOf(param_couplings[i]) = PairOf(param_couplings[j])
          /\ param_couplings[i].type # param_couplings[j].type
    /\ Len(graph.edges) < Len(param_couplings)

Mentions(n) ==
    {k \in 1..Len(param_couplings) :
        param_couplings[k].param1 = n \/ param_couplings[k].param2 = n}

FirstMention(n) == CHOOSE k \in Mentions(n) : \A j \in Mentions(n) : k <= j
LastMention(n) == CHOOSE k \in Mentions(n) : \A j \in Mentions(n) : j <= k

\* the cluster a record names first, and last, for the parameter n
FirstTag(r, n) == IF r.param1 = n THEN r.param1_cluster ELSE r.param2_cluster
LastTag(r, n) == IF r.param2 = n THEN r.param2_cluster ELSE r.param1_cluster

\* C15 as stated: a node's cluster attribute is the one of the first record
\* that mentions the parameter.
C15_FirstClusterWins ==
    Graphed =>
        \A n \in DictKeys(graph.nodes) :
            DictGet(graph.nodes, n).cluster =
                FirstTag(param_couplings[FirstMention(n)], n)

\* C15: a node's cluster attribute is the one of the last record, in list
\* order, that mentions the parameter; every later record replaces it.
C15_LastClusterWins ==
    Graphed =>
        /\ DictKeys(graph.nodes) =
              {r.param1 : r \in Range(param_couplings)}
                  \cup {r.param2 : r \in Range(param_couplings)}
        /\ \A n \in DictKeys(graph.nodes) :
              DictGet(graph.nodes, n).cluster =
                  LastTag(param_couplings[LastMention(n)], n)

\* a parameter that two records put in different clusters is a node
C15_Witness ==
    /\ pc = "graphed"
    /\ \E n \in DictKeys(graph.nodes) :
          /\ FirstMention(n) # LastMention(n)
          /\ FirstTag(param_couplings[FirstMention(n)], n)
                # LastTag(param_couplings[LastMention(n)], n)

\* the records whose two cluster tags are the clusters of the key, in either
\* order
TaggedWith(key) ==
    {k \in 1..Len(param_couplings) :
        {param_couplings[k].param1_cluster, param_couplings[k].param2_cluster}
            = {key[1], key[2]}}

RECURSIVE SumCounts(_)
SumCounts(d) == IF d = <<>> THEN 0 ELSE Head(d).value + SumCounts(Tail(d))

Summarised == pc \in {"summarised", "graphed", "aggregated_twice"}

\* C17: unique_parameters is the size of the union of the records' param1 and
\* param2; by_cluster_pair has one key per unordered cluster pair, the sorted
\* pair, counting the records tagged with it in either order; the counts sum
\* to total_couplings, the number of records.
C17_SummaryCounts ==
    Summarised =>
        /\ summary.unique_parameters =
              Cardinality({r.param1 : r \in Range(param_couplings)}
                              \cup {r.param2 : r \in Range(param_couplings)})
        /\ \A r \in Range(param_couplings) :
              sorted(<<r.param1_cluster, r.param2_cluster>>)
                  \in DictKeys(summary.by_cluster_pair)
        /\ \A key \in DictKeys(summary.by_cluster_pair) :
              /\ key = sorted(key)
              /\ DictGet(summary.by_cluster_pair, key) = Cardinality(TaggedWith(key))
        /\ Len(summary.by_cluster_pair) = Cardinality(DictKeys(summary.by_cluster_pair))
        /\ summary.unique_cluster_pairs = Len(summary.by_cluster_pair)
        /\ SumCounts(summary.by_cluster_pair) = summary.total_couplings
        /\ summary.total_couplings = Len(param_couplings)

\* records tagged (X, Y) and (Y, X) were counted
C17_Witness ==
    /\ pc = "summarised"
    /\ \E i, j \in 1..Len(param_couplings) :
          /\ param_couplings[i].param1_cluster = param_couplings[j].param2_cluster
          /\ param_couplings[i].param2_cluster = param_couplings[j].param1_cluster
          /\ param_couplings[i].param1_cluster # param_couplings[i].param2_cluster
    /\ summary.unique_parameters >= 2

----------------------------------------------------------------------------
(* The judgment loop *)

\* the calls of the judge that came back with has_coupling true, in order
PositiveLog ==
    SelectSeq(judge_log,
        LAMBDA e : e.outcome.kind = "Judgment" /\ e.outcome.has_coupling)

\* the coupling entry and the task a record was made from
FromEntry(r, e, c) ==
    /\ r.param1 = c.param1
    /\ r.param2 = c.param2
    /\ r.type = c.type
    /\ r.context_count = cluster_pairs[e.task].context_count
    /\ r.has_intra_file = cluster_pairs[e.task].has_intra_file
    /\ r.has_inter_file = cluster_pairs[e.task].has_inter_file

RECURSIVE CouplingsIn(_)
CouplingsIn(log) ==
    IF log = <<>> THEN 0
    ELSE Len(Head(log).outcome.couplings) + CouplingsIn(Tail(log))

\* C16: the results of analyze_all are the judgments with has_coupling true,
\* one per such call and none for a negative judgment, a null or a failure;
\* every extracted record is made from a coupling entry of one of them.
C16_OnlyPositiveJudgments ==
    /\ Len(llm_results) = Len(PositiveLog)
    /\ \A i \in 1..Len(llm_results) :
          /\ llm_results[i].analysis = PositiveLog[i].outcome
          /\ llm_results[i].cluster_pair
                = cluster_pairs[PositiveLog[i].task].cluster_pair
    /\ Extracted =>
          /\ Len(param_couplings) = CouplingsIn(PositiveLog)
          /\ \A k \in 1..Len(param_couplings) :
                \E i \in 1..Len(PositiveLog) :
                    \E c \in Range(PositiveLog[i].outcome.couplings) :
                        FromEntry(param_couplings[k], PositiveLog[i], c)

\* a positive judgment gave a record, next to a negative judgment that had a
\* couplings entry and to a call that gave nothing or failed
C16_Witness ==
    /\ pc = "extracted"
    /\ param_couplings # <<>>
    /\ \E i \in 1..Len(judge_log) :
          /\ judge_log[i].outcome.kind = "Judgment"
          /\ ~judge_log[i].outcome.has_coupling
          /\ judge_log[i].outcome.couplings # <<>>
    /\ Len(judge_log) > Len(llm_results)

\* the tasks among the first n that have a context, in list order
TasksWithContexts(n) ==
    SelectSeq([i \in 1..n |-> i], LAMBDA i : cluster_pairs[i].context_count > 0)

\* the calls so far that did not fail
Returned == SelectSeq(judge_log, LAMBDA e : e.outcome.kind # "Failure")

\* C19: the judge is called once for every task with a context, in list order
\* and never twice; the loop ends only after the last task, whatever the
\* calls did; a failed call gives no result, and the results follow the order
\* of the tasks they come from.
C19_OncePerTaskInOrder ==
    /\ [i \in 1..Len(judge_log) |-> judge_log[i].task] = TasksWithContexts(task_index)
    /\ pc # "judge" => task_index = Len(cluster_pairs)
    /\ Len(llm_results) <= Len(Returned)
    /\ \E f \in [1..Len(llm_results) -> 1..Len(cluster_pairs)] :
          /\ \A i, j \in 1..Len(llm_results) : i < j => f[i] < f[j]
          /\ \A i \in 1..Len(llm_results) :
                /\ f[i] <= task_index
                /\ llm_results[i].cluster_pair = cluster_pairs[f[i]].cluster_pair
                /\ llm_results[i].contexts = cluster_pairs[f[i]].contexts
                /\ \E e \in Range(Returned) : e.task = f[i]

\* the call for one task failed and a later task was judged and gave a result
C19_Witness ==
    /\ pc = "judged"
    /\ \E i, j \in 1..Len(judge_log) :
          /\ i < j
          /\ judge_log[i].outcome.kind = "Failure"
          /\ judge_log[j].outcome.kind = "Judgment"
          /\ judge_log[j].outcome.has_coupling
          /\ \E r \in Range(llm_results) :
                r.cluster_pair = cluster_pairs[judge_log[j].task].cluster_pair

----------------------------------------------------------------------------
(* Lines the loader skips *)

\* a line that is empty, comment-only, or no declaration
Skipped(ln) ==
    \/ strip(ln) = <<>>
    \/ Head(strip(ln)) = "#"
    \/ parse_param_line(ln).kind = "None"

FirstDeclaring(pl, n) ==
    CHOOSE i \in ValidLines(pl) :
        /\ pl[i].name = n
        /\ \A j \in ValidLines(pl) : pl[j].name = n => i <= j

\* C22: a line that is empty, comment-only or no declaration leaves the
\* catalog as it was and stops nothing: the load completes, and the catalog
\* is the one of the other lines alone, in their order (names in the order
\* of their first declaration outside skipped lines, each with its last one).
C22_SkippedLinesChangeNothing ==
    (pc # "load" /\ params_file.kind = "file") =>
        LET lines == params_file.lines
            pl == ParsedLines
        IN  /\ pc # "aborted"
            /\ \A k \in 1..Len(lines) :
                  Skipped(lines[k]) =>
                      LoadLoop(SubSeq(lines, 1, k), <<>>)
                          = LoadLoop(SubSeq(lines, 1, k - 1), <<>>)
            /\ \A k \in 1..Len(lines) : Skipped(lines[k]) <=> k \notin ValidLines(pl)
            /\ Len(params_info) = Cardinality(DeclaredNames(pl))
            /\ \A a \in 1..Len(params_info) :
                  /\ params_info[a].key \in DeclaredNames(pl)
                  /\ params_info[a].value = pl[LastDeclaring(pl, params_info[a].key)]
                  /\ \A b \in 1..Len(params_info) :
                        a < b => FirstDeclaring(pl, params_info[a].key)
                                    < FirstDeclaring(pl, params_info[b].key)

\* a blank line, a comment line or a line that is no declaration stood
\* between two declarations that were both loaded
C22_Witness ==
    /\ pc = "scan"
    /\ params_file.kind = "file"
    /\ Len(params_file.lines) = 3
    /\ Skipped(params_file.lines[2])
    /\ Len(params_info) = 2
    /\ params_info[1].key = parse_param_line(params_file.lines[1]).name
    /\ params_info[2].key = parse_param_line(params_file.lines[3]).name

----------------------------------------------------------------------------
(* Noise stripping: texts with comments and string literals *)

MaxNoiseToks == 4

\* a name, a quote, an escaped quote, the comment delimiters and a newline
NoiseTokens ==
    {<<"A">>, <<"\"">>, <<"\\", "\"">>, <<"/", "/">>, <<"/", "*">>, <<"*", "/">>,
     <<"\n">>}

NoiseTexts == {Cat(ts) : ts \in SeqsUpTo(NoiseTokens, MaxNoiseToks)}

InitNoise ==
    /\ pc = "scan"
    /\ driver_root \in {<<FileA(t)>> : t \in NoiseTexts}
    /\ clusters = <<Entry(<<"X">>, <<PA>>)>>
    /\ params_info = <<Entry(PA, InfoOf(PA))>>
    /\ line = <<>>
    /\ decl = NoneVal
    /\ parsed = NoneVal
    /\ dependency_data = <<>>
    /\ scan_result = NoScan
    /\ candidates = <<>>
    /\ file_pairs = <<>>
    /\ cluster_pairs = <<>>
    /\ NoLoad /\ NoWorkers /\ NoJudge /\ NoAggregate

NextNoise == MatchParamsInFile \/ SmartMatchParamsInFile

SpecNoise == InitNoise /\ [][NextNoise]_vars

\* index of the quote that closes a string literal whose content starts at
\* s[j], a backslash escaping the character after it; 0 when there is none
RECURSIVE StringClose(_, _)
StringClose(s, j) ==
    IF j > Len(s) THEN 0
    ELSE IF s[j] = "\\" THEN StringClose(s, j + 2)
    ELSE IF s[j] = "\"" THEN j
    ELSE StringClose(s, j + 1)

\* index of the first "*/" at or after s[j], 0 when there is none
CommentClose(s, j) ==
    LET closes == {k \in j..(Len(s) - 1) : s[k] = "*" /\ s[k + 1] = "/"}
    IN  IF closes = {} THEN 0 ELSE CHOOSE k \in closes : \A m \in closes : k <= m

\* index of the first newline at or after s[j], Len(s) + 1 when there is none
LineEnd(s, j) ==
    LET nls == {k \in j..Len(s) : s[k] = "\n"}
    IN  IF nls = {} THEN Len(s) + 1 ELSE CHOOSE k \in nls : \A m \in nls : k <= m

\* the indexes of s, read as source text from s[i] on, that lie in a // line
\* comment, in a closed /* */ block comment or in a closed string literal
RECURSIVE NoiseFrom(_, _)
NoiseFrom(s, i) ==
    IF i > Len(s) THEN {}
    ELSE IF s[i] = "/" /\ CharAt(s, i + 1) = "/"
         THEN (i..(LineEnd(s, i) - 1)) \cup NoiseFrom(s, LineEnd(s, i))
    ELSE IF s[i] = "/" /\ CharAt(s, i + 1) = "*" /\ CommentClose(s, i + 2) # 0
         THEN (i..(CommentClose(s, i + 2) + 1))
                  \cup NoiseFrom(s, CommentClose(s, i + 2) + 2)
    ELSE IF s[i] = "\"" /\ StringClose(s, i + 1) # 0
         THEN (i..StringClose(s, i + 1)) \cup NoiseFrom(s, StringClose(s, i + 1) + 1)
    ELSE NoiseFrom(s, i + 1)

\* the whole-word occurrences of name in the raw text that are not inside a
\* comment or a string literal
OutsideNoise(name, raw) ==
    {p \in WholeWordOffsets(name, raw) :
        ~((p + 1)..(p + Len(name)) \subseteq NoiseFrom(raw, 1))}

\* C23: a noise-stripping scanner reports a parameter only if the raw text
\* has an occurrence of it outside comments and string literals.
C23_NoiseNeverMatches ==
    (/\ pc = "matched"
     /\ scan_result.variant \in {"couple_extractor", "string_filter"}
     /\ scan_result.result.kind # "None")
        => \A n \in Range(scan_result.result.matched_params) :
              OutsideNoise(n, scan_result.file.content) # {}

----------------------------------------------------------------------------
(* The content of File-Pair tasks *)

\* the FileMatches the scanner output holds for this path, one per cluster
MatchesOf(cand, path) ==
    {cand[i].value[j] :
        <<i, j>> \in {ij \in (1..Len(cand)) \X (1..Len(driver_root)) :
                         /\ ij[2] <= Len(cand[ij[1]].value)
                         /\ cand[ij[1]].value[ij[2]].file = path}}

MatchedParams(path) == UNION {Range(m.matched_params) : m \in MatchesOf(candidates, path)}

\* ascending, so without duplicates
StrictlySorted(seq) ==
    \A i, j \in 1..Len(seq) : i < j => StrLess(seq[i], seq[j])

IsSortedSetOf(seq, S) == Range(seq) = S /\ StrictlySorted(seq)

\* the parameter and cluster lists of the tasks, which the scanner output
\* decides whatever the order of its clusters
SideLists(tasks) ==
    [k \in 1..Len(tasks) |->
        IF tasks[k].type = "INTER_FILE"
        THEN <<tasks[k].caller_file, tasks[k].callee_file,
               tasks[k].caller_params, tasks[k].callee_params,
               tasks[k].caller_clusters, tasks[k].callee_clusters>>
        ELSE <<tasks[k].file, tasks[k].params, tasks[k].clusters>>]

Reordered(cand, f) == [i \in 1..Len(cand) |-> cand[f[i]]]

\* C24: an INTER_FILE task carries, for the caller and for the callee, the
\* sorted duplicate-free union of the file's matched parameters over all
\* clusters and the sorted set of the clusters with a FileMatch for the file;
\* these lists are the same for every order of the clusters in the scanner
\* output.
C24_InterFileContent ==
    pc = "file_pairs" =>
        /\ \A k \in 1..Len(file_pairs) :
              file_pairs[k].type = "INTER_FILE" =>
                  LET t == file_pairs[k]
                  IN  /\ InMap(t.caller_file) /\ InMap(t.callee_file)
                      /\ IsSortedSetOf(t.caller_params, MatchedParams(t.caller_file))
                      /\ IsSortedSetOf(t.callee_params, MatchedParams(t.callee_file))
                      /\ IsSortedSetOf(t.caller_clusters, MatchedClusters(t.caller_file))
                      /\ IsSortedSetOf(t.callee_clusters, MatchedClusters(t.callee_file))
        /\ \A f \in Permutations(1..Len(candidates)) :
              SideLists(file_build_pairs(dependency_data, Reordered(candidates, f)))
                  = SideLists(file_pairs)

\* an INTER_FILE task whose caller matched in two clusters, with a parameter
\* of each
C24_Witness ==
    /\ pc = "file_pairs"
    /\ \E k \in 1..Len(file_pairs) :
          /\ file_pairs[k].type = "INTER_FILE"
          /\ Len(file_pairs[k].caller_clusters) >= 2
          /\ Len(file_pairs[k].caller_params) >= 2
          /\ \E m1, m2 \in MatchesOf(candidates, file_pairs[k].caller_file) :
                Range(m1.matched_params) # Range(m2.matched_params)

\* the definition lists of the sides of a task, each with its name list
SidesOf(t) ==
    IF t.type = "INTER_FILE"
    THEN {[names |-> t.caller_params, defs |-> t.caller_params_info],
          [names |-> t.callee_params, defs |-> t.callee_params_info]}
    ELSE {[names |-> t.params, defs |-> t.params_info]}

\* C28: in every File-Pair task each side's definition list holds exactly one
\* definition for each name of the side's parameter list, and no other.
C28_OneDefinitionPerName ==
    pc = "file_pairs" =>
        \A k \in 1..Len(file_pairs) :
            \A side \in SidesOf(file_pairs[k]) :
                /\ {d.name : d \in Range(side.defs)} = Range(side.names)
                /\ Len(side.defs) = Len(side.names)
                /\ \A i, j \in 1..Len(side.defs) :
                      i # j => side.defs[i].name # side.defs[j].name

----------------------------------------------------------------------------
(* The counters and flags of Cluster-Pair tasks *)

IntraItems(t) == {i \in 1..Len(t.contexts) : t.contexts[i].type = "INTRA_FILE"}
InterItems(t) == {i \in 1..Len(t.contexts) : t.contexts[i].type = "INTER_FILE"}

\* C25: every Cluster-Pair task has context_count equal to the number of its
\* evidence items, at least 1; has_intra_file says whether one of them is an
\* intra-file item and has_inter_file whether one is an inter-file item, so
\* one of the flags is true.
C25_CountAndFlags ==
    pc = "cluster_pairs" =>
        \A k \in 1..Len(cluster_pairs) :
            LET t == cluster_pairs[k]
            IN  /\ t.context_count = Len(t.contexts)
                /\ t.context_count >= 1
                /\ t.context_count = Cardinality(IntraItems(t)) + Cardinality(InterItems(t))
                /\ t.has_intra_file <=> IntraItems(t) # {}
                /\ t.has_inter_file <=> InterItems(t) # {}
                /\ t.has_intra_file \/ t.has_inter_file

\* a task with both kinds of evidence next to a task with inter-file evidence
\* only
C25_Witness ==
    /\ pc = "cluster_pairs"
    /\ \E j, k \in 1..Len(cluster_pairs) :
          /\ cluster_pairs[j].has_intra_file /\ cluster_pairs[j].has_inter_file
          /\ cluster_pairs[j].context_count >= 2
          /\ ~cluster_pairs[k].has_intra_file /\ cluster_pairs[k].has_inter_file

----------------------------------------------------------------------------
(* Cluster names that hold the separator of the pair key *)

\* X, X<->Y, Y<->Z and Z: the keys of (X, Y<->Z) and of (X<->Y, Z) are the
\* same string
KeyClusters ==
    {<<Entry(<<"X">>, <<PA>>), Entry(<<"X", Arrow, "Y">>, <<PB>>),
       Entry(<<"Y", Arrow, "Z">>, <<PB>>), Entry(<<"Z">>, <<PC>>)>>,
     <<Entry(<<"Z">>, <<PC>>), Entry(<<"Y", Arrow, "Z">>, <<PA>>),
       Entry(<<"X", Arrow, "Y">>, <<PB>>), Entry(<<"X">>, <<PA, PC>>)>>,
     <<Entry(<<"X">>, <<PA>>), Entry(<<"Y">>, <<PB>>), Entry(<<"Z">>, <<PC>>)>>}

InitKeys ==
    /\ pc = "scan"
    /\ driver_root \in PipeTrees
    /\ clusters \in KeyClusters
    /\ params_info = PipeCatalog
    /\ dependency_data \in {MkDeps(es) : es \in SeqsUpTo(EdgePairs, 1)}
    /\ line = <<>>
    /\ decl = NoneVal
    /\ parsed = NoneVal
    /\ scan_result = NoScan
    /\ candidates = <<>>
    /\ file_pairs = <<>>
    /\ cluster_pairs = <<>>
    /\ NoLoad /\ NoWorkers /\ NoJudge /\ NoAggregate

NextKeys == ScanAll \/ BuildClusterPairs

SpecKeys == InitKeys /\ [][NextKeys]_vars

TasksOf(A, B) ==
    {k \in 1..Len(cluster_pairs) : Range(cluster_pairs[k].cluster_pair) = {A, B}}

\* C27: every unordered pair of distinct used clusters with evidence has a
\* task of its own, carrying that pair's evidence, whatever the cluster names.
C27_EveryPairKeepsItsTask ==
    pc = "cluster_pairs" =>
        \A A, B \in AllUsed :
            (A # B /\ HasEvidence(A, B)) =>
                /\ Cardinality(TasksOf(A, B)) = 1
                /\ \A k \in TasksOf(A, B) :
                      cluster_pairs[k].context_count
                          = Cardinality(IntraFilesOf(A, B)) + Cardinality(InterEdgesOf(A, B))

----------------------------------------------------------------------------
(* The document of a Cluster-Pair task *)

\* the file in which the context shows the cluster
FileOfSide(ctx, cluster) ==
    IF ctx.type = "INTRA_FILE" THEN ctx.file
    ELSE IF ctx.caller_cluster = cluster THEN ctx.caller_file
    ELSE ctx.callee_file

\* the definitions the scanner matched for the cluster in the file
DefinitionsOf(cluster, file) ==
    LET m == CHOOSE x \in MatchesOf(<<Entry(cluster, DictGet(candidates, cluster))>>, file) :
                 TRUE
    IN  m.params_info

\* C26: in the document of a task the text under the first cluster's heading
\* lists the definitions of the first cluster's matched parameters and the
\* text under the second cluster's heading those of the second cluster,
\* whatever the first evidence item is.
C26_DefinitionsUnderOwnCluster ==
    \A k \in 1..Len(judge_log) :
        LET t == cluster_pairs[judge_log[k].task]
            document == judge_log[k].prompt
            first == t.contexts[1]
        IN  /\ document.cluster1 = t.cluster_pair[1]
            /\ document.cluster2 = t.cluster_pair[2]
            /\ document.cluster1_definitions =
                  _format_params_info(
                      DefinitionsOf(t.cluster_pair[1], FileOfSide(first, t.cluster_pair[1])))
            /\ document.cluster2_definitions =
                  _format_params_info(
                      DefinitionsOf(t.cluster_pair[2], FileOfSide(first, t.cluster_pair[2])))

----------------------------------------------------------------------------
(* main: one run of the pipeline, from load to the last artifact *)

MainParamFiles ==
    {NoneVal,
     [kind |-> "file",
      lines |-> <<LineOf(<<"A", "(", "i", ")", " ", "8">>), LineOf(<<"A", " ", "8">>),
                  LineOf(<<"B", "(", "i", ")", " ", "8">>)>>]}

MainClusters ==
    {NoneVal,
     [kind |-> "file", clusters |-> <<Entry(<<"X">>, <<PA>>), Entry(<<"Y">>, <<PB>>)>>]}

MainDependencies ==
    {NoneVal, [kind |-> "file", module_dependencies |-> MkDeps(<<<<PathA, PathB>>>>)]}

\* the files under driver/: A and B together and B alone; A and B apart; a
\* file that cannot be opened next to one with A and B; no file
MainTrees ==
    {<<PipeFile(PathA, <<"A", " ", "B", " ">>), PipeFile(PathB, <<"B", " ">>)>>,
     <<PipeFile(PathA, <<"A", " ">>), PipeFile(PathB, <<"B", " ">>)>>,
     <<Unreadable, PipeFile(PathB, <<"A", " ", "B", " ">>)>>,
     <<>>}

\* driver_root is what rglob('*') yields: nothing for a root that is missing
\* or cannot be listed, since pathlib swallows the error
InitMain ==
    /\ pc = "load"
    /\ params_file \in MainParamFiles
    /\ clusters_json \in MainClusters
    /\ dependency_json \in MainDependencies
    /\ root_readable \in BOOLEAN
    /\ driver_root \in (IF root_readable THEN MainTrees ELSE {<<>>})
    /\ params_info = <<>>
    /\ clusters = <<>>
    /\ dependency_data = <<>>
    /\ line = <<>>
    /\ decl = NoneVal
    /\ parsed = NoneVal
    /\ scan_result = NoScan
    /\ candidates = <<>>
    /\ file_pairs = <<>>
    /\ cluster_pairs = <<>>
    /\ NoWorkers /\ NoJudge /\ NoAggregate

\* main, step 4: LLMCouplingAnalyzer(cluster_pairs, loader.clusters)
StartJudge ==
    /\ pc = "cluster_pairs"
    /\ pc' = "judge"
    /\ UNCHANGED <<JudgeVars, AggVars>>
    /\ JudgeFrame

\* main, steps 5 and 6 to the end: the matrix, then the records, the summary
\* and the graph.  main catches no exception, so one raised by
\* build_coupling_matrix ends the run there.
Aggregate ==
    /\ pc = "judged"
    /\ LET matrix == build_coupling_matrix(llm_results)
       IN  /\ coupling_matrix' = matrix
           /\ IF matrix.kind = "TypeError"
              THEN /\ pc' = "aborted"
                   /\ UNCHANGED <<param_couplings, summary, graph>>
              ELSE /\ param_couplings' = extract(llm_results)
                   /\ summary' = generate_summary(extract(llm_results))
                   /\ graph' = build_graph(extract(llm_results))
                   /\ pc' = "done"
    /\ UNCHANGED <<JudgeVars, previous>>
    /\ JudgeFrame

NextMain ==
    \/ Load
    \/ ScanAll
    \/ BuildClusterPairs
    \/ StartJudge
    \/ AnalyzeStep
    \/ AnalyzeReturn
    \/ Aggregate

SpecMain == InitMain /\ [][NextMain]_vars

\* C21: no failure ends a run of main: whatever is missing, unreadable or
\* fails in the judge, the run does not stop on an exception and, once the
\* last step is done, all artifacts are there; only a root that cannot be
\* read halts it, and then before the scan.
C21_NoFailureIsFatal ==
    /\ root_readable =>
          /\ pc # "aborted"
          /\ pc = "done" =>
                /\ coupling_matrix.kind = "matrix"
                /\ summary.kind = "Summary"
                /\ graph.kind = "Graph"
    /\ ~root_readable => pc \in {"load", "scan", "halted"}

====
